---- MODULE Spec2Model ----
(***************************************************************************)
(* The Cloudflare Pages worker of urban-sketch-landing-pages (_worker.js): *)
(* affiliate attribution (AffiliateWP visits and affwp_* cookies) and      *)
(* edge-side A/B routing (ab_<key> cookies), together with the three       *)
(* parties it talks to: the visitor's browser (cookie jar), the static     *)
(* asset store (env.ASSETS) and the AffiliateWP REST API.                  *)
(*                                                                         *)
(* A JavaScript string is a sequence of symbols.  A symbol is either one   *)
(* character the code inspects ("/", ".", "-", "=", ";", "%", " ", a hex   *)
(* digit) or a word: a run of characters the code never looks into         *)
(* ("beginners", "affwp_affiliate_id").  A string has one spelling only.   *)
(***************************************************************************)
EXTENDS Integers, Sequences, FiniteSets, TLC

VARIABLES
  AB_TESTS,      \* the experiment table compiled into the deployed worker
  env,           \* the worker's environment bindings (vars and secrets)
  jar,           \* the visitor's cookie store: cookie name -> value or NULL
  visits,        \* AffiliateWP's visit table: visit number -> affiliate id
  pc,            \* where the handler of the request in flight stands
  url,           \* new URL(request.url): pathname and searchParams
  cookieHeader,  \* request.headers.get('cookie') || ''
  cookies,       \* parseCookies(...) of the request in flight
  abResult,      \* resolveABTest(...): <<>> for null, else <<result>>
  assetPath,     \* the pathname handed to env.ASSETS.fetch, NULL before it
  fetched,       \* the response env.ASSETS.fetch returned, <<>> before it
  apiCalls,      \* the POSTs createAffiliateVisit sent for this request
  apiResponse,   \* how the API answered the POST, "none" before it, "never"
                 \* once it is settled that no answer will come
  visitId,       \* what createAffiliateVisit returned, NULL before it
  response,      \* what fetch() returned, <<>> before it
  returned,      \* "same": the fetched object itself, "copy": a new Response
  firstVariant,  \* history: experiment path -> name of the variant first assigned
  parked,        \* the locals of a second handler, suspended at its await
  script         \* the reporting script: the locals of the function that runs

vars == <<AB_TESTS, env, jar, visits, pc, url, cookieHeader, cookies, abResult,
          assetPath, fetched, apiCalls, apiResponse, visitId, response, returned,
          firstVariant, parked, script>>

-----------------------------------------------------------------------------
(* JavaScript values and string methods                                    *)

\* null and undefined: a value no string equals
NULL == <<"#null">>

\* what decodeURIComponent throws
URIError == <<"#URIError">>

\* a string in a boolean context: null, undefined and '' are falsy
Truthy(v) == v # NULL /\ v # <<>>

\* a || b on strings
Or(a, b) == IF Truthy(a) THEN a ELSE b

endsWith(s, t) ==
  Len(s) >= Len(t) /\ SubSeq(s, Len(s) - Len(t) + 1, Len(s)) = t

\* s.includes(t), t a string
includes(s, t) ==
  \E i \in 1..(Len(s) - Len(t) + 1) : SubSeq(s, i, i + Len(t) - 1) = t

\* 1-based index of the first character c in s, 0 when there is none
RECURSIVE indexFrom(_, _, _)
indexFrom(s, c, i) ==
  IF i > Len(s) THEN 0 ELSE IF s[i] = c THEN i ELSE indexFrom(s, c, i + 1)

indexOf(s, c) == indexFrom(s, c, 1)

RECURSIVE trimStart(_)
trimStart(s) == IF s # <<>> /\ s[1] = " " THEN trimStart(Tail(s)) ELSE s

RECURSIVE trimEnd(_)
trimEnd(s) ==
  IF s # <<>> /\ s[Len(s)] = " " THEN trimEnd(SubSeq(s, 1, Len(s) - 1)) ELSE s

trim(s) == trimEnd(trimStart(s))

\* s.split(c): ''.split(';') is ['']
RECURSIVE split(_, _)
split(s, c) ==
  LET i == indexOf(s, c)
  IN  IF i = 0 THEN <<s>>
      ELSE <<SubSeq(s, 1, i - 1)>> \o split(SubSeq(s, i + 1, Len(s)), c)

\* s.replace(/\//g, '-')
replaceAll(s, c, d) == [i \in 1..Len(s) |-> IF s[i] = c THEN d ELSE s[i]]

RECURSIVE join(_, _)
join(parts, sep) ==
  IF parts = <<>> THEN <<>>
  ELSE IF Len(parts) = 1 THEN parts[1]
  ELSE parts[1] \o sep \o join(Tail(parts), sep)

HexDigits ==
  {"0", "1", "2", "3", "4", "5", "6", "7", "8", "9",
   "A", "B", "C", "D", "E", "F", "a", "b", "c", "d", "e", "f"}

\* The characters of the model's alphabet that encodeURIComponent escapes,
\* each with the two hex digits of its code.
Escapes ==
  {<<"%", "2", "5">>, <<" ", "2", "0">>, <<";", "3", "B">>,
   <<"=", "3", "D">>, <<"/", "2", "F">>}

\* The character %h1h2 stands for.  Only the escapes above are characters of
\* the alphabet; a unit at or above %80 has no meaning on its own.
Unescape(h1, h2) ==
  IF \E e \in Escapes : e[2] = h1 /\ e[3] = h2
  THEN (CHOOSE e \in Escapes : e[2] = h1 /\ e[3] = h2)[1]
  ELSE "\\x" \o h1 \o h2

\* decodeURIComponent: a '%' not followed by two hex digits is a URIError
RECURSIVE decodeURIComponent(_)
decodeURIComponent(s) ==
  IF s = <<>> THEN <<>>
  ELSE IF s[1] # "%"
    THEN LET r == decodeURIComponent(Tail(s))
         IN  IF r = URIError THEN URIError ELSE <<s[1]>> \o r
  ELSE IF Len(s) < 3 \/ s[2] \notin HexDigits \/ s[3] \notin HexDigits
    THEN URIError
  ELSE IF s[2] \notin {"0", "1", "2", "3", "4", "5", "6", "7"}
    THEN URIError
  ELSE LET r == decodeURIComponent(SubSeq(s, 4, Len(s)))
       IN  IF r = URIError THEN URIError ELSE <<Unescape(s[2], s[3])>> \o r

RECURSIVE encodeURIComponent(_)
encodeURIComponent(s) ==
  IF s = <<>> THEN <<>>
  ELSE (IF \E e \in Escapes : e[1] = s[1]
        THEN LET e == CHOOSE e \in Escapes : e[1] = s[1]
             IN  <<"%", e[2], e[3]>>
        ELSE <<s[1]>>)
       \o encodeURIComponent(Tail(s))

-----------------------------------------------------------------------------
(* Utilities                                                               *)

\* cookies[name]: undefined when the header had no such cookie
Get(map, name) == IF name \in DOMAIN map THEN map[name] ELSE NULL

\* One ';'-separated piece of a Cookie header, as parseCookies' callback
\* reads it: [name, ...rest] = pair.trim().split('=').
CookiePair(pair) ==
  LET p == trim(pair)
      i == indexOf(p, "=")
      name == IF i = 0 THEN p ELSE SubSeq(p, 1, i - 1)
      rest == IF i = 0 THEN <<>> ELSE SubSeq(p, i + 1, Len(p))
  IN  [name  |-> name,
       key   |-> trim(name),
       value |-> decodeURIComponent(trim(rest))]

\* parseCookies: the mapping, or threw when decodeURIComponent throws on the
\* value of a named pair.  A later pair overwrites an earlier one of its name.
parseCookies(cookieStr) ==
  IF cookieStr = <<>> THEN [threw |-> FALSE, map |-> <<>>]
  ELSE
    LET pairs == split(cookieStr, ";")
        named == {i \in 1..Len(pairs) : CookiePair(pairs[i]).name # <<>>}
        last(k) == CHOOSE i \in named :
                     /\ CookiePair(pairs[i]).key = k
                     /\ \A j \in named : CookiePair(pairs[j]).key = k => j <= i
    IN  IF \E i \in named : CookiePair(pairs[i]).value = URIError
        THEN [threw |-> TRUE, map |-> <<>>]
        ELSE [threw |-> FALSE,
              map   |-> [k \in {CookiePair(pairs[i]).key : i \in named}
                          |-> CookiePair(pairs[last(k)]).value]]

-----------------------------------------------------------------------------
(* A/B test helpers                                                        *)

AB_COOKIE_PREFIX == <<"ab_">>

\* Math.random() * 100 lies in [0, RandScale); weights are integers, so the
\* draw d stands for every real in [d, d + 1): rand < cumulative there
\* exactly when d < cumulative.
RandScale == 100

Draws == 0..(RandScale - 1)

\* testConfig.variants[-1] of an empty list
UNDEFINED == [name |-> NULL, path |-> NULL, weight |-> 0]

\* The lookup with the pathname as it came
TestPath_NoNormalise(pathname) == pathname

\* Normalise path: ensure trailing slash for directory URLs
TestPath(pathname) ==
  IF ~endsWith(pathname, <<"/">>) /\ ~includes(pathname, <<".">>)
  THEN pathname \o <<"/">>
  ELSE pathname

\* testPath.replace(/^\/|\/$/g, '').replace(/\//g, '-') || 'home'
TestKey(testPath) ==
  LET a == IF testPath # <<>> /\ testPath[1] = "/" THEN Tail(testPath)
           ELSE testPath
      b == IF a # <<>> /\ a[Len(a)] = "/" THEN SubSeq(a, 1, Len(a) - 1) ELSE a
  IN  Or(replaceAll(b, "/", "-"), <<"home">>)

CookieName(testKey) == AB_COOKIE_PREFIX \o testKey

\* find with a callback that accepts every variant
Find_AnyName(variants, name) == IF variants = <<>> THEN 0 ELSE 1

\* testConfig.variants.find(v => v.name === existingAssignment), 0 for none
Find(variants, name) ==
  IF \E i \in 1..Len(variants) : variants[i].name = name
  THEN CHOOSE i \in 1..Len(variants) :
         /\ variants[i].name = name
         /\ \A j \in 1..(i - 1) : variants[j].name # name
  ELSE 0

\* The loop with `rand <= cumulative` for its comparison
RECURSIVE Walk_Inclusive(_, _, _, _)
Walk_Inclusive(variants, rand, i, cumulative) ==
  IF i > Len(variants)
  THEN (IF variants = <<>> THEN UNDEFINED ELSE variants[Len(variants)])
  ELSE IF rand <= cumulative + variants[i].weight THEN variants[i]
  ELSE Walk_Inclusive(variants, rand, i + 1, cumulative + variants[i].weight)

\* The loop of the weighted assignment from variant i on, `cumulative` being
\* the weights before it; past the end, the fallback to the last variant
RECURSIVE Walk(_, _, _, _)
Walk(variants, rand, i, cumulative) ==
  IF i > Len(variants)
  THEN (IF variants = <<>> THEN UNDEFINED ELSE variants[Len(variants)])
  ELSE IF rand < cumulative + variants[i].weight THEN variants[i]
  ELSE Walk(variants, rand, i + 1, cumulative + variants[i].weight)

\* New visitor: weighted random assignment
Draw(variants, rand) == Walk(variants, rand, 1, 0)

\* resolveABTest without the check for an existing assignment
resolveABTest_AlwaysDraws(pathname, parsed, rand) ==
  LET testPath == TestPath(pathname)
  IN  IF testPath \notin DOMAIN AB_TESTS THEN <<>>
      ELSE <<[testKey |-> TestKey(testPath),
              variant |-> Draw(AB_TESTS[testPath], rand),
              isNew   |-> TRUE]>>

\* resolveABTest(url, cookies): <<>> for null
resolveABTest(pathname, parsed, rand) ==
  LET testPath == TestPath(pathname)
  IN  IF testPath \notin DOMAIN AB_TESTS THEN <<>>
      ELSE
        LET variants == AB_TESTS[testPath]
            testKey == TestKey(testPath)
            existingAssignment == Get(parsed, CookieName(testKey))
            assigned == IF Truthy(existingAssignment)
                        THEN Find(variants, existingAssignment) ELSE 0
        IN  IF assigned # 0
            THEN <<[testKey |-> testKey, variant |-> variants[assigned],
                    isNew |-> FALSE]>>
            ELSE <<[testKey |-> testKey, variant |-> Draw(variants, rand),
                    isNew |-> TRUE]>>

-----------------------------------------------------------------------------
(* Affiliate tracking helpers                                              *)

AFFILIATE_COOKIE == <<"affwp_affiliate_id">>
VISIT_COOKIE == <<"affwp_visit_id">>
CAMPAIGN_COOKIE == <<"affwp_campaign">>

DigitValue(c) ==
  CASE c = "0" -> 0 [] c = "1" -> 1 [] c = "2" -> 2 [] c = "3" -> 3
    [] c = "4" -> 4 [] c = "5" -> 5 [] c = "6" -> 6 [] c = "7" -> 7
    [] c = "8" -> 8 [] c = "9" -> 9 [] OTHER -> -1

\* parseInt's result on a string that does not start with a digit
NaN == -1

\* parseInt(s, 10) of an unsigned string: its leading digits, else NaN
RECURSIVE ParseDigits(_, _)
ParseDigits(s, acc) ==
  IF s = <<>> \/ DigitValue(s[1]) < 0 THEN acc
  ELSE ParseDigits(Tail(s), acc * 10 + DigitValue(s[1]))

parseInt(s) ==
  LET t == trimStart(s)
  IN  IF t = <<>> \/ DigitValue(t[1]) < 0 THEN NaN ELSE ParseDigits(t, 0)

\* `${n}` of a number
NumberString(n) == IF n = NaN THEN <<"NaN">> ELSE <<ToString(n)>>

SecondsPerDay == 86400

\* How long to remember a visitor's variant assignment (30 days)
AB_COOKIE_MAX_AGE == 30 * SecondsPerDay

\* `${name}=${value}; Path=/; Max-Age=${maxAge}; SameSite=Lax`
SetCookie(name, value, maxAge) ==
  name \o <<"=">> \o value
       \o <<";", " ", "Path", "=", "/", ";", " ", "Max-Age", "=">>
       \o maxAge \o <<";", " ", "SameSite", "=", "Lax">>

\* The referral parameter with its name fixed
refVar_Fixed == <<"ref">>

\* The cookie lifetime with the configured days ignored
cookieDays_Default == parseInt(<<"4", "0", "0">>)

\* The configuration the handler reads from env
refVar == Or(env.AFFWP_REF_VAR, <<"ref">>)
affiliateId == Get(url.searchParams, refVar)
campaign == Or(Get(url.searchParams, <<"campaign">>), <<>>)
cookieDays == parseInt(Or(env.AFFWP_COOKIE_DAYS, <<"4", "0", "0">>))
creditLast == Or(env.AFFWP_CREDIT_LAST, <<"true">>) = <<"true">>

\* (env.AFFWP_PARENT_URL || '').replace(/\/$/, '')
parentUrl ==
  LET u == Or(env.AFFWP_PARENT_URL, <<>>)
  IN  IF endsWith(u, <<"/">>) THEN SubSeq(u, 1, Len(u) - 1) ELSE u

\* The check of the configuration, looking at the base URL only
Configured_UrlOnly == Truthy(parentUrl)

\* createAffiliateVisit returns null at once unless all three are set
Configured ==
  /\ Truthy(parentUrl)
  /\ Truthy(Or(env.AFFWP_PUBLIC_KEY, <<>>))
  /\ Truthy(Or(env.AFFWP_TOKEN, <<>>))

Origin == <<"https:", "/", "/", "go.urbansketchcourse.com">>

\* The POST with the path of the fetched content as its landing page
ApiCall_VariantPath ==
  [affiliate_id |-> affiliateId,
   url          |-> Origin \o assetPath,
   campaign     |-> campaign]

\* The POST createAffiliateVisit sends: the query parameters of the call
ApiCall ==
  [affiliate_id |-> affiliateId,
   url          |-> Origin \o url.pathname,
   campaign     |-> campaign]

\* What the API can answer to one POST
Outcomes == {"reject", "error", "garbled", "visit_id", "id"}

\* Those that registered a visit and say so
Registered == {"visit_id", "id"}

\* Further answers with a success status and a JSON object: both fields,
\* neither field, and the number 0 as visit_id beside an id
JsonOutcomes == {"both", "neither", "zero"}

Answers == Outcomes \cup JsonOutcomes

\* The answers that JSON.parse accepts, and those that registered a visit
Parsed == Registered \cup JsonOutcomes
Creates == Registered \cup {"both", "zero"}

\* The id AffiliateWP gives its k-th visit, as `${visitId}` prints it
VisitId(k) == <<ToString(k)>>

\* The number 0 of a JSON answer, and the id of another record
ZERO == <<"#0">>
OtherId == <<"99">>

\* a value of a JSON answer in a boolean context
JsonTruthy(v) == Truthy(v) /\ v # ZERO

\* a || b on values of a JSON answer
JsonOr(a, b) == IF JsonTruthy(a) THEN a ELSE b

\* JSON.parse(responseText) of a parsed answer, the visit being the k-th: a
\* field the object lacks reads as undefined
Data(outcome, k) ==
  CASE outcome = "visit_id" -> [visit_id |-> VisitId(k), id |-> NULL]
    [] outcome = "id"       -> [visit_id |-> NULL, id |-> VisitId(k)]
    [] outcome = "both"     -> [visit_id |-> VisitId(k), id |-> OtherId]
    [] outcome = "zero"     -> [visit_id |-> ZERO, id |-> VisitId(k)]
    [] OTHER                -> [visit_id |-> NULL, id |-> NULL]

\* createAffiliateVisit without its checks of the answer
VisitIdOf_IgnoresFailure(outcome, k) == VisitId(k)

\* createAffiliateVisit reading id before visit_id
VisitIdOf_IdFirst(outcome, k) ==
  IF outcome \in Parsed
  THEN LET data == Data(outcome, k)
       IN  JsonOr(JsonOr(data.id, data.visit_id), NULL)
  ELSE NULL

\* createAffiliateVisit's return value for an outcome, the visit being the
\* k-th: data.visit_id || data.id || null, and null on every failure
VisitIdOf(outcome, k) ==
  IF outcome \in Parsed
  THEN LET data == Data(outcome, k)
       IN  JsonOr(JsonOr(data.visit_id, data.id), NULL)
  ELSE NULL

-----------------------------------------------------------------------------
(* The static asset store                                                  *)

HtmlType == <<"text", "/", "html", ";", " ", "charset", "=", "utf-8">>
CssType == <<"text", "/", "css">>

AssetKinds == {"html", "css", "missing"}

\* env.ASSETS.fetch answers for `path`: a page, a stylesheet, a page served
\* without a content type ("untyped"), or a 404 without a content type
AssetResponse(kind, path) ==
  CASE kind = "html" ->
         [status  |-> 200,
          headers |-> <<<<"content-type", HtmlType>>, <<"etag", <<"W1">>>>>>,
          page    |-> path,
          body    |-> <<"<html>", "<head>", "<title>", "</head>", "<body>">>]
    [] kind = "css" ->
         [status  |-> 200,
          headers |-> <<<<"content-type", CssType>>, <<"etag", <<"W2">>>>>>,
          page    |-> path,
          body    |-> <<"body", "{", "}">>]
    [] kind = "untyped" ->
         [status  |-> 200,
          headers |-> <<<<"etag", <<"W3">>>>>>,
          page    |-> path,
          body    |-> <<"<html>", "<head>", "<title>", "</head>", "<body>">>]
    [] OTHER ->
         [status  |-> 404,
          headers |-> <<>>,
          page    |-> path,
          body    |-> <<>>]

\* response.headers.get(name): null when the header is absent
HeaderGet(headers, name) ==
  IF \E i \in 1..Len(headers) : headers[i][1] = name
  THEN headers[CHOOSE i \in 1..Len(headers) :
                 /\ headers[i][1] = name
                 /\ \A j \in 1..(i - 1) : headers[j][1] # name][2]
  ELSE NULL

\* newResponse.headers.append('Set-Cookie', value)
AppendSetCookie(r, value) ==
  [r EXCEPT !.headers = Append(@, <<"set-cookie", value>>)]

SetCookies(r) ==
  SelectSeq(r.headers, LAMBDA h : h[1] = "set-cookie")

-----------------------------------------------------------------------------
(* The fetch handler, from the asset response on (lines 78-170)            *)

\* The classification by the content type alone
isHtml_ContentOnly(resp) ==
  includes(Or(HeaderGet(resp.headers, "content-type"), <<>>),
           <<"text", "/", "html">>)

\* Determine if this is an HTML page
isHtml(resp) ==
  LET contentType == Or(HeaderGet(resp.headers, "content-type"), <<>>)
      pathname == url.pathname
      isHtmlContent == includes(contentType, <<"text", "/", "html">>)
      isHtmlPath == \/ endsWith(pathname, <<"/">>)
                    \/ endsWith(pathname, <<".", "html">>)
                    \/ pathname = <<>>
  IN  isHtmlContent \/ isHtmlPath

\* needsAffiliate without the HTML test
needsAffiliate_AnyContent(resp) == Truthy(affiliateId)

needsAffiliate(resp) == Truthy(affiliateId) /\ isHtml(resp)

\* needsABCookie without the isNew flag
needsABCookie_AnyAssignment == abResult # <<>>

needsABCookie == abResult # <<>> /\ abResult[1].isNew

\* needsVariantTag without the HTML test
needsVariantTag_AnyResponse(resp) == abResult # <<>>

needsVariantTag(resp) == abResult # <<>> /\ isHtml(resp)

\* shouldTrack without the test of the existing cookies
shouldTrack_Always == TRUE

\* shouldTrack without the creditLast flag
shouldTrack_FirstOnly ==
  LET existingAffiliate == Get(cookies, AFFILIATE_COOKIE)
      existingVisit == Get(cookies, VISIT_COOKIE)
  IN  ~Truthy(existingAffiliate) \/ ~Truthy(existingVisit)

\* shouldTrack without the test of the visit cookie
shouldTrack_AffiliateOnly ==
  LET existingAffiliate == Get(cookies, AFFILIATE_COOKIE)
  IN  creditLast \/ ~Truthy(existingAffiliate)

\* Credit-last-referrer logic
shouldTrack ==
  LET existingAffiliate == Get(cookies, AFFILIATE_COOKIE)
      existingVisit == Get(cookies, VISIT_COOKIE)
  IN  creditLast \/ ~Truthy(existingAffiliate) \/ ~Truthy(existingVisit)

\* Set A/B cookie for new visitors
WithABCookie(r) ==
  IF needsABCookie
  THEN AppendSetCookie(r, SetCookie(CookieName(abResult[1].testKey),
                                    abResult[1].variant.name,
                                    NumberString(AB_COOKIE_MAX_AGE)))
  ELSE r

\* The cookies written without the test of the campaign
WithAffiliateCookies_CampaignAlways(r, id) ==
  LET maxAge == NumberString(IF cookieDays = NaN THEN NaN
                             ELSE cookieDays * SecondsPerDay)
      r1 == AppendSetCookie(r, SetCookie(AFFILIATE_COOKIE, affiliateId, maxAge))
      r2 == AppendSetCookie(r1, SetCookie(CAMPAIGN_COOKIE,
                                          encodeURIComponent(campaign), maxAge))
  IN  IF Truthy(id)
      THEN AppendSetCookie(r2, SetCookie(VISIT_COOKIE, id, maxAge))
      ELSE r2

\* The three cookies written after createAffiliateVisit returned visitId
WithAffiliateCookies(r, id) ==
  LET maxAge == NumberString(IF cookieDays = NaN THEN NaN
                             ELSE cookieDays * SecondsPerDay)
      r1 == AppendSetCookie(r, SetCookie(AFFILIATE_COOKIE, affiliateId, maxAge))
      r2 == IF Truthy(campaign)
            THEN AppendSetCookie(r1, SetCookie(CAMPAIGN_COOKIE,
                                     encodeURIComponent(campaign), maxAge))
            ELSE r1
  IN  IF Truthy(id)
      THEN AppendSetCookie(r2, SetCookie(VISIT_COOKIE, id, maxAge))
      ELSE r2

\* The script block appended to the head element
ClarityTag(testKey, variantName) ==
  <<"\n<script>window.__abTest=\"">> \o testKey
    \o <<"\";window.__abVariant=\"">> \o variantName
    \o <<"\";if(typeof clarity===\"function\"){clarity(\"set\",\"">>
    \o testKey \o <<"\",\"">> \o variantName
    \o <<"\");}</script>\n">>

\* element.prepend(tag): the tag becomes the first child of every head element
RECURSIVE Rewrite_Prepend(_, _)
Rewrite_Prepend(body, tag) ==
  IF body = <<>> THEN <<>>
  ELSE (IF body[1] = "<head>" THEN <<body[1]>> \o tag ELSE <<body[1]>>)
       \o Rewrite_Prepend(Tail(body), tag)

\* HTMLRewriter.on('head', element.append(tag)): the tag becomes the last
\* child of every head element, right before its end tag
RECURSIVE Rewrite(_, _)
Rewrite(body, tag) ==
  IF body = <<>> THEN <<>>
  ELSE (IF body[1] = "</head>" THEN tag \o <<body[1]>> ELSE <<body[1]>>)
       \o Rewrite(Tail(body), tag)

\* The injection without the HTML test
WithVariantTag_Unguarded(r, resp) ==
  IF abResult # <<>>
  THEN [r EXCEPT !.body = Rewrite(@, ClarityTag(abResult[1].testKey,
                                                abResult[1].variant.name))]
  ELSE r

\* Inject Clarity variant tag via HTMLRewriter
WithVariantTag(r, resp) ==
  IF needsVariantTag(resp)
  THEN [r EXCEPT !.body = Rewrite(@, ClarityTag(abResult[1].testKey,
                                                abResult[1].variant.name))]
  ELSE r

\* The copy made as new Response(response.body), without the init argument:
\* status 200 and no headers of the fetched response
Compose_BodyOnly(resp, tracked, id) ==
  LET bare == [resp EXCEPT !.status = 200, !.headers = <<>>]
      r1 == WithABCookie(bare)
      r2 == IF tracked THEN WithAffiliateCookies(r1, id) ELSE r1
  IN  WithVariantTag(r2, resp)

\* The copy with the A/B cookie appended by two blocks of the handler
Compose_CookieTwice(resp, tracked, id) ==
  LET r1 == WithABCookie(WithABCookie(resp))
      r2 == IF tracked THEN WithAffiliateCookies(r1, id) ELSE r1
  IN  WithVariantTag(r2, resp)

\* The response of a request that needed post-processing: the mutable copy
\* with the A/B cookie, the affiliate cookies when tracking ran, and the tag
Compose(resp, tracked, id) ==
  LET r1 == WithABCookie(resp)
      r2 == IF tracked THEN WithAffiliateCookies(r1, id) ELSE r1
  IN  WithVariantTag(r2, resp)

-----------------------------------------------------------------------------
(* The visitor's browser                                                   *)

StartPath == <<"/", "beginners", "-", "course", "/", "start", "/">>
StartNoSlash == SubSeq(StartPath, 1, Len(StartPath) - 1)
FlatPath == <<"/", "beginners", "-", "course", "-", "start", "/">>
StylePath == <<"/", "style", ".", "css">>

\* The cookies a visitor of the site can hold, in the order they are sent
JarNames ==
  <<AFFILIATE_COOKIE, VISIT_COOKIE, CAMPAIGN_COOKIE,
    CookieName(TestKey(StartPath))>>

JarDomain == {JarNames[i] : i \in 1..Len(JarNames)}

EmptyJar == [n \in JarDomain |-> NULL]

\* The Cookie header the browser sends: name=value pairs joined by "; "
RECURSIVE CookiePairsFrom(_, _)
CookiePairsFrom(j, i) ==
  IF i > Len(JarNames) THEN <<>>
  ELSE (IF j[JarNames[i]] = NULL THEN <<>>
        ELSE <<JarNames[i] \o <<"=">> \o j[JarNames[i]]>>)
       \o CookiePairsFrom(j, i + 1)

CookieString(j) == join(CookiePairsFrom(j, 1), <<";", " ">>)

\* The browser stores a Set-Cookie header: the name up to the first '=', the
\* value up to the first ';'
StoreCookie(j, header) ==
  LET nv == split(header, ";")[1]
      i == indexOf(nv, "=")
      name == trim(SubSeq(nv, 1, i - 1))
      value == trim(SubSeq(nv, i + 1, Len(nv)))
  IN  IF i = 0 \/ name \notin DOMAIN j THEN j
      ELSE [j EXCEPT ![name] = value]

RECURSIVE StoreAll(_, _)
StoreAll(j, headers) ==
  IF headers = <<>> THEN j
  ELSE StoreAll(StoreCookie(j, headers[1][2]), Tail(headers))

-----------------------------------------------------------------------------
(* Deployments: an experiment table and an environment                     *)

Variant(name, path, weight) == [name |-> name, path |-> path, weight |-> weight]

VariantBName == <<"variant", "-", "b">>

\* control and variant-b of the experiment at `path`, with the given weights
TwoVariants(path, w1, w2) ==
  <<Variant(<<"control">>, path, w1),
    Variant(VariantBName, path \o VariantBName, w2)>>

\* The table of the source
Deployed == StartPath :> TwoVariants(StartPath, 50, 50)

\* Weights that do not total RandScale
Uneven == StartPath :> TwoVariants(StartPath, 30, 30)

\* A second experiment on another page
TwoTests ==
  (StartPath :> TwoVariants(StartPath, 50, 50))
    @@ (FlatPath :> TwoVariants(FlatPath, 70, 30))

\* An entry whose variants were all commented out
NoVariants == StartPath :> <<>>

\* No test running
NoTests == [p \in {} |-> <<>>]

Tables == {Deployed, Uneven, TwoTests, NoVariants, NoTests}

ExperimentPaths == {StartPath, FlatPath}

Env(token, creditLastVar) ==
  [AFFWP_PARENT_URL  |-> <<"https:", "/", "/", "learn.urbansketch.com">>,
   AFFWP_PUBLIC_KEY  |-> <<"key">>,
   AFFWP_TOKEN       |-> token,
   AFFWP_REF_VAR     |-> NULL,
   AFFWP_COOKIE_DAYS |-> NULL,
   AFFWP_CREDIT_LAST |-> creditLastVar]

Envs ==
  {Env(<<"token">>, NULL), Env(<<"token">>, <<"false">>), Env(NULL, NULL)}

\* The configured environment with one binding left out
EnvWithout(name) == [Env(<<"token">>, NULL) EXCEPT ![name] = NULL]

\* An experiment whose weights are all 0
ZeroWeights == StartPath :> TwoVariants(StartPath, 0, 0)

\* The deployments: every table with every environment above, the table of
\* the source without the base URL and without the public key, and the
\* zero-weight experiment
Deployments ==
  (Tables \X Envs)
    \cup {<<Deployed, EnvWithout("AFFWP_PARENT_URL")>>,
          <<Deployed, EnvWithout("AFFWP_PUBLIC_KEY")>>,
          <<ZeroWeights, Env(<<"token">>, NULL)>>}

-----------------------------------------------------------------------------
(* Requests                                                                *)

Paths == {StartPath, StartNoSlash, FlatPath, StylePath}

Query(ref, camp) ==
  (<<"ref">> :> ref) @@ (<<"a">> :> NULL) @@ (<<"campaign">> :> camp)

Queries ==
  {Query(NULL, NULL), Query(<<>>, NULL), Query(<<"5">>, NULL),
   Query(<<"7">>, <<"5", "0", "%">>), Query(<<"%">>, NULL)}

\* A cookie jar holding affwp_affiliate_id = a, affwp_visit_id = v and
\* ab_beginners-course-start = b
Jar(a, v, b) ==
  [n \in JarDomain |->
     CASE n = AFFILIATE_COOKIE -> a
       [] n = VISIT_COOKIE -> v
       [] n = CAMPAIGN_COOKIE -> NULL
       [] OTHER -> b]

\* Cookie jars of clients that did not get all their cookies from the worker:
\* none, an attributed visitor, an empty and a malformed affiliate id, an
\* assigned visitor, and a visitor assigned to a variant since removed
AnyJars ==
  {Jar(NULL, NULL, NULL),
   Jar(<<"5">>, <<"9">>, NULL),
   Jar(<<>>, <<"9">>, NULL),
   Jar(<<"%">>, NULL, NULL),
   Jar(NULL, NULL, <<"control">>),
   Jar(<<"5">>, <<"9">>, <<"control">>),
   Jar(NULL, NULL, <<"variant", "-", "c">>)}

\* The most visits AffiliateWP registers
MaxVisits == 2

-----------------------------------------------------------------------------
(* The state machine                                                       *)

Idle ==
  /\ pc = "idle"
  /\ url = [pathname |-> <<>>, searchParams |-> Query(NULL, NULL)]
  /\ cookieHeader = <<>>
  /\ cookies = <<>>
  /\ abResult = <<>>
  /\ assetPath = NULL
  /\ fetched = <<>>
  /\ apiCalls = <<>>
  /\ apiResponse = "none"
  /\ visitId = NULL
  /\ response = <<>>
  /\ returned = "none"

\* The locals of a handler that has not started
IdleContext ==
  [pc           |-> "idle",
   url          |-> [pathname |-> <<>>, searchParams |-> Query(NULL, NULL)],
   cookieHeader |-> <<>>,
   cookies      |-> <<>>,
   abResult     |-> <<>>,
   assetPath    |-> NULL,
   fetched      |-> <<>>,
   apiCalls     |-> <<>>,
   apiResponse  |-> "none",
   visitId      |-> NULL,
   response     |-> <<>>,
   returned     |-> "none"]

\* fetchAllVisits before it is called; hasMaxBatches tells the copy of the
\* script that runs: the one with the batch limit or the one without
ScriptIdle ==
  [pc            |-> "idle",
   hasMaxBatches |-> TRUE,
   batchNum      |-> 0,
   offset        |-> 0,
   keepGoing     |-> TRUE,
   allVisits     |-> 0,
   requests      |-> 0]

\* The handler's locals are gone once the response is out
Forget ==
  /\ pc' = "idle"
  /\ url' = [pathname |-> <<>>, searchParams |-> Query(NULL, NULL)]
  /\ cookieHeader' = <<>>
  /\ cookies' = <<>>
  /\ abResult' = <<>>
  /\ assetPath' = NULL
  /\ fetched' = <<>>
  /\ apiCalls' = <<>>
  /\ apiResponse' = "none"
  /\ visitId' = NULL
  /\ response' = <<>>
  /\ returned' = "none"

\* A visitor without cookies
Init ==
  /\ \E d \in Deployments : AB_TESTS = d[1] /\ env = d[2]
  /\ jar = EmptyJar
  /\ visits = <<>>
  /\ firstVariant = [p \in ExperimentPaths |-> NULL]
  /\ parked = IdleContext
  /\ script = ScriptIdle
  /\ Idle

\* Any client
InitAny ==
  /\ \E d \in Deployments : AB_TESTS = d[1] /\ env = d[2]
  /\ jar \in AnyJars
  /\ visits = <<>>
  /\ firstVariant = [p \in ExperimentPaths |-> NULL]
  /\ parked = IdleContext
  /\ script = ScriptIdle
  /\ Idle

\* The visitor requests `pathname` with `query`: fetch() parses the cookies,
\* resolves the A/B test with some draw of Math.random and asks the asset
\* store for the page (lines 61-76)
Request(pathname, query) ==
  /\ pc = "idle"
  /\ url' = [pathname |-> pathname, searchParams |-> query]
  /\ cookieHeader' = CookieString(jar)
  /\ \E parsed \in {parseCookies(CookieString(jar))} :
       IF parsed.threw
       THEN /\ pc' = "threw"
            /\ UNCHANGED <<cookies, abResult, assetPath>>
       ELSE /\ cookies' = parsed.map
            /\ \E ab \in {resolveABTest(pathname, parsed.map, rand) :
                            rand \in Draws} :
                 /\ abResult' = ab
                 /\ IF ab # <<>> /\ ab[1].variant = UNDEFINED
                    THEN pc' = "threw" /\ UNCHANGED assetPath
                    ELSE /\ pc' = "assets"
                         /\ assetPath' = IF ab # <<>>
                                         THEN ab[1].variant.path
                                         ELSE pathname
  /\ UNCHANGED <<parked, script, AB_TESTS, env, jar, visits, fetched, apiCalls, apiResponse,
                 visitId, response, returned, firstVariant>>

\* The handler with the POST handed to ctx.waitUntil: it sends the POST and
\* returns at once, without the visit id
AssetsRespond_FireAndForget(kind) ==
  LET resp == AssetResponse(kind, assetPath)
  IN  /\ pc = "assets"
      /\ fetched' = <<resp>>
      /\ IF ~needsAffiliate(resp) /\ ~needsABCookie /\ ~needsVariantTag(resp)
         THEN /\ response' = <<resp>>
              /\ returned' = "same"
              /\ UNCHANGED apiCalls
         ELSE /\ response' =
                   <<Compose(resp, needsAffiliate(resp) /\ shouldTrack, NULL)>>
              /\ returned' = "copy"
              /\ apiCalls' = IF needsAffiliate(resp) /\ shouldTrack /\ Configured
                             THEN Append(apiCalls, ApiCall) ELSE apiCalls
      /\ pc' = "done"
      /\ UNCHANGED <<parked, script, AB_TESTS, env, jar, visits, url, cookieHeader, cookies,
                     abResult, assetPath, apiResponse, visitId, firstVariant>>

\* The handler returning without attribution cookies when the configuration
\* is missing
AssetsRespond_SkipsUnconfigured(kind) ==
  LET resp == AssetResponse(kind, assetPath)
  IN  /\ pc = "assets"
      /\ fetched' = <<resp>>
      /\ IF ~needsAffiliate(resp) /\ ~needsABCookie /\ ~needsVariantTag(resp)
         THEN /\ response' = <<resp>>
              /\ returned' = "same"
              /\ pc' = "done"
              /\ UNCHANGED apiCalls
         ELSE IF needsAffiliate(resp) /\ shouldTrack /\ Configured
         THEN /\ apiCalls' = Append(apiCalls, ApiCall)
              /\ pc' = "api"
              /\ UNCHANGED <<response, returned>>
         ELSE /\ response' = <<Compose(resp, FALSE, NULL)>>
              /\ returned' = "copy"
              /\ pc' = "done"
              /\ UNCHANGED apiCalls
      /\ UNCHANGED <<parked, script, AB_TESTS, env, jar, visits, url, cookieHeader, cookies,
                     abResult, assetPath, apiResponse, visitId, firstVariant>>

\* env.ASSETS.fetch resolves; the handler runs up to its return or up to the
\* POST of createAffiliateVisit (lines 78-123 and 230-266)
AssetsRespond(kind) ==
  LET resp == AssetResponse(kind, assetPath)
  IN  /\ pc = "assets"
      /\ fetched' = <<resp>>
      /\ IF ~needsAffiliate(resp) /\ ~needsABCookie /\ ~needsVariantTag(resp)
         THEN /\ response' = <<resp>>
              /\ returned' = "same"
              /\ pc' = "done"
              /\ UNCHANGED apiCalls
         ELSE IF needsAffiliate(resp) /\ shouldTrack /\ Configured
         THEN /\ apiCalls' = Append(apiCalls, ApiCall)
              /\ pc' = "api"
              /\ UNCHANGED <<response, returned>>
         ELSE /\ response' =
                   <<Compose(resp, needsAffiliate(resp) /\ shouldTrack, NULL)>>
              /\ returned' = "copy"
              /\ pc' = "done"
              /\ UNCHANGED apiCalls
      /\ UNCHANGED <<parked, script, AB_TESTS, env, jar, visits, url, cookieHeader, cookies,
                     abResult, assetPath, apiResponse, visitId, firstVariant>>

\* The API answers the POST, or the POST fails; the handler sets the cookies,
\* tags the page and returns (lines 268-285 and 125-170)
ApiRespond(outcome) ==
  /\ pc = "api"
  /\ apiResponse = "none"
  /\ outcome \in Creates => Len(visits) < MaxVisits
  /\ visits' = IF outcome \in Creates
               THEN Append(visits, apiCalls[Len(apiCalls)].affiliate_id)
               ELSE visits
  /\ apiResponse' = outcome
  /\ visitId' = VisitIdOf(outcome, Len(visits) + 1)
  /\ response' = <<Compose(fetched[1], TRUE, visitId')>>
  /\ returned' = "copy"
  /\ pc' = "done"
  /\ UNCHANGED <<parked, script, AB_TESTS, env, jar, url, cookieHeader, cookies, abResult,
                 assetPath, fetched, apiCalls, firstVariant>>

\* The API hangs: the promise of `await fetch(apiUrl, ...)` (line 259), which
\* is given no signal and no timer, never settles, so the handler stays at its
\* await
ApiHangs ==
  /\ pc = "api"
  /\ apiResponse = "none"
  /\ apiResponse' = "never"
  /\ UNCHANGED <<parked, script, AB_TESTS, env, jar, visits, pc, url, cookieHeader, cookies,
                 abResult, assetPath, fetched, apiCalls, visitId, response,
                 returned, firstVariant>>

\* The browser gets the response and stores its cookies, or gets the error
\* page of a handler that threw
Receive ==
  /\ pc \in {"done", "threw"}
  /\ jar' = IF pc = "done" THEN StoreAll(jar, SetCookies(response[1])) ELSE jar
  /\ firstVariant' =
       IF pc = "done" /\ abResult # <<>>
          /\ firstVariant[TestPath(url.pathname)] = NULL
       THEN [firstVariant EXCEPT ![TestPath(url.pathname)] =
                                    abResult[1].variant.name]
       ELSE firstVariant
  /\ Forget
  /\ UNCHANGED <<parked, script, AB_TESTS, env, visits>>

Next ==
  \/ \E p \in Paths, q \in Queries : Request(p, q)
  \/ \E k \in AssetKinds : AssetsRespond(k)
  \/ \E o \in Outcomes : ApiRespond(o)
  \/ ApiHangs
  \/ Receive

Spec == Init /\ [][Next]_vars

SpecAny == InitAny /\ [][Next]_vars

-----------------------------------------------------------------------------
(* Two requests handled concurrently                                       *)

\* The locals of the handler that is running
Context ==
  [pc           |-> pc,
   url          |-> url,
   cookieHeader |-> cookieHeader,
   cookies      |-> cookies,
   abResult     |-> abResult,
   assetPath    |-> assetPath,
   fetched      |-> fetched,
   apiCalls     |-> apiCalls,
   apiResponse  |-> apiResponse,
   visitId      |-> visitId,
   response     |-> response,
   returned     |-> returned]

\* The locals with abResult declared at module level: a handler that resumes
\* finds the result of whichever handler resolved last
Resume_ModuleLevelResult(ctx) == [ctx EXCEPT !.abResult = abResult]

\* The locals a handler finds when it resumes after an await: url, cookies,
\* abResult, response and the others are declared inside fetch, one set for
\* each invocation
Resume(ctx) == ctx

\* The runtime suspends the running handler at its await (or before its start
\* or after its return) and runs the other one
Switch ==
  /\ parked # Context
  /\ \E ctx \in {Resume(parked)} :
       /\ pc' = ctx.pc
       /\ url' = ctx.url
       /\ cookieHeader' = ctx.cookieHeader
       /\ cookies' = ctx.cookies
       /\ abResult' = ctx.abResult
       /\ assetPath' = ctx.assetPath
       /\ fetched' = ctx.fetched
       /\ apiCalls' = ctx.apiCalls
       /\ apiResponse' = ctx.apiResponse
       /\ visitId' = ctx.visitId
       /\ response' = ctx.response
       /\ returned' = ctx.returned
  /\ parked' = Context
  /\ UNCHANGED <<script, AB_TESTS, env, jar, visits, firstVariant>>

\* The deployment of the source, a visitor without cookies
InitPair ==
  /\ AB_TESTS = Deployed
  /\ env = Env(<<"token">>, NULL)
  /\ jar = EmptyJar
  /\ visits = <<>>
  /\ firstVariant = [p \in ExperimentPaths |-> NULL]
  /\ parked = IdleContext
  /\ script = ScriptIdle
  /\ Idle

PairPaths == {StartPath, StylePath}

PairQueries == {Query(NULL, NULL), Query(<<"5">>, NULL)}

NextPair ==
  \/ \E p \in PairPaths, q \in PairQueries : Request(p, q)
  \/ \E k \in {"html", "missing"} : AssetsRespond(k)
  \/ \E o \in {"error", "visit_id"} : ApiRespond(o)
  \/ Receive
  \/ Switch

SpecPair == InitPair /\ [][NextPair]_vars

-----------------------------------------------------------------------------
(* An asset store that serves pages without a content type                 *)

\* The deployment of the source; a new visitor or one assigned to control
InitUntyped ==
  /\ AB_TESTS = Deployed
  /\ env = Env(<<"token">>, NULL)
  /\ jar \in {Jar(NULL, NULL, NULL), Jar(NULL, NULL, <<"control">>)}
  /\ visits = <<>>
  /\ firstVariant = [p \in ExperimentPaths |-> NULL]
  /\ parked = IdleContext
  /\ script = ScriptIdle
  /\ Idle

NextUntyped ==
  \/ \E p \in Paths, q \in PairQueries : Request(p, q)
  \/ \E k \in AssetKinds \cup {"untyped"} : AssetsRespond(k)
  \/ \E o \in Outcomes : ApiRespond(o)
  \/ ApiHangs
  \/ Receive

SpecUntyped == InitUntyped /\ [][NextUntyped]_vars

-----------------------------------------------------------------------------
(* Other configurations, requests and answers of the API                   *)

\* A page requested by its file name
IndexPath == <<"/", "beginners", "-", "course", "/", "index", ".", "html">>

\* A query with the parameter `a`
QueryA(a, ref) ==
  (<<"ref">> :> ref) @@ (<<"a">> :> a) @@ (<<"campaign">> :> NULL)

\* The configured environment with one binding set
EnvWith(name, value) == [Env(<<"token">>, NULL) EXCEPT ![name] = value]

\* The environment of the source; the referral parameter renamed and named
\* by ''; 30 days and a lifetime that is no number; the values of the
\* credit-last switch; and the three bindings of the API left out in turn
ConfigEnvs ==
  {Env(<<"token">>, NULL),
   EnvWith("AFFWP_REF_VAR", <<"a">>),
   EnvWith("AFFWP_REF_VAR", <<>>),
   EnvWith("AFFWP_COOKIE_DAYS", <<"3", "0">>),
   EnvWith("AFFWP_COOKIE_DAYS", <<"x">>),
   EnvWith("AFFWP_CREDIT_LAST", <<>>),
   EnvWith("AFFWP_CREDIT_LAST", <<"true">>),
   EnvWith("AFFWP_CREDIT_LAST", <<"false">>),
   EnvWith("AFFWP_CREDIT_LAST", <<"TRUE">>),
   EnvWithout("AFFWP_PARENT_URL"),
   EnvWithout("AFFWP_PUBLIC_KEY"),
   EnvWithout("AFFWP_TOKEN")}

ConfigPaths == {StartPath, FlatPath, StylePath, IndexPath}

ConfigQueries ==
  {Query(NULL, NULL), Query(<<>>, NULL), Query(<<"5">>, NULL),
   Query(<<"7">>, <<"5", "0", "%">>), QueryA(<<"3">>, NULL),
   QueryA(<<>>, <<"5">>)}

\* The table of the source; a new visitor or an attributed one
InitConfig ==
  /\ AB_TESTS = Deployed
  /\ env \in ConfigEnvs
  /\ jar \in {Jar(NULL, NULL, NULL), Jar(<<"5">>, <<"9">>, NULL)}
  /\ visits = <<>>
  /\ firstVariant = [p \in ExperimentPaths |-> NULL]
  /\ parked = IdleContext
  /\ script = ScriptIdle
  /\ Idle

NextConfig ==
  \/ \E p \in ConfigPaths, q \in ConfigQueries : Request(p, q)
  \/ \E k \in AssetKinds \cup {"untyped"} : AssetsRespond(k)
  \/ \E o \in Answers : ApiRespond(o)
  \/ ApiHangs
  \/ Receive

SpecConfig == InitConfig /\ [][NextConfig]_vars

-----------------------------------------------------------------------------
(* The reporting script: fetchAllVisits                                    *)

batchSize == 500

\* Safety limit: 75K visits max
maxBatches == 150

\* The most entries the API puts into one answer
MaxBatchLen == 501

\* The most requests a run of fetchAllVisits is followed for
MaxRequests == 151

BatchLens == {0, 1, batchSize, MaxBatchLen}

\* Everything but the script's state
handlerVars ==
  <<AB_TESTS, env, jar, visits, pc, url, cookieHeader, cookies, abResult,
    assetPath, fetched, apiCalls, apiResponse, visitId, response, returned,
    firstVariant, parked>>

\* The script calls fetchAllVisits; allVisits is the length of the list
fetchAllVisits(hasMaxBatches) ==
  /\ script.pc = "idle"
  /\ script' = [ScriptIdle EXCEPT !.pc = "loop",
                                  !.hasMaxBatches = hasMaxBatches]
  /\ UNCHANGED handlerVars

\* The test of the while loop and, if it passes, the next apiFetch('/visits')
NextBatch ==
  /\ script.pc = "loop"
  /\ IF /\ script.keepGoing
        /\ script.hasMaxBatches => script.batchNum < maxBatches
     THEN /\ script.requests < MaxRequests
          /\ script' = [script EXCEPT
                          !.pc = "fetching",
                          !.batchNum = IF script.hasMaxBatches THEN @ + 1 ELSE @,
                          !.requests = @ + 1]
     ELSE script' = [script EXCEPT !.pc = "returned"]
  /\ UNCHANGED handlerVars

\* apiFetch resolves with an array of `len` visits, DESC by date, of which
\* the first `fresh` are not older than startDate; len = 0 also stands for an
\* answer that is no array
BatchArrives(len, fresh) ==
  /\ script.pc = "fetching"
  /\ fresh \in {0, len}
  /\ script' =
       IF len = 0 THEN [script EXCEPT !.pc = "returned"]
       ELSE [script EXCEPT
               !.allVisits = @ + fresh,
               !.keepGoing = @ /\ fresh = len,
               !.pc = IF len < batchSize THEN "returned" ELSE "loop",
               !.offset = IF len < batchSize THEN @ ELSE @ + batchSize]
  /\ UNCHANGED handlerVars

\* apiFetch throws: a non-ok status, a network error, or its 30 s abort
apiFetchThrows ==
  /\ script.pc = "fetching"
  /\ script' = [script EXCEPT !.pc = "threw"]
  /\ UNCHANGED handlerVars

InitScript ==
  /\ AB_TESTS = Deployed
  /\ env = Env(<<"token">>, NULL)
  /\ jar = EmptyJar
  /\ visits = <<>>
  /\ firstVariant = [p \in ExperimentPaths |-> NULL]
  /\ parked = IdleContext
  /\ script = ScriptIdle
  /\ Idle

NextScript ==
  \/ \E hasMaxBatches \in BOOLEAN : fetchAllVisits(hasMaxBatches)
  \/ NextBatch
  \/ \E len \in BatchLens, fresh \in 0..MaxBatchLen : BatchArrives(len, fresh)
  \/ apiFetchThrows

SpecScript == InitScript /\ [][NextScript]_vars

-----------------------------------------------------------------------------
(* The reporting script: main, from the fetched records to the funnel label *)

\* s.startsWith(t)
startsWith(s, t) == Len(s) >= Len(t) /\ SubSeq(s, 1, Len(t)) = t

\* The leading decimal digits of s
RECURSIVE LeadingDigits(_)
LeadingDigits(s) ==
  IF s = <<>> \/ DigitValue(s[1]) < 0 THEN <<>>
  ELSE <<s[1]>> \o LeadingDigits(Tail(s))

\* parseFloat of a string spelled character by character: an optional '-',
\* digits, an optional fraction.  Amounts are money with at most two decimals,
\* so the value is kept in hundredths; nan when no number starts the string.
parseFloat(s) ==
  LET t == trimStart(s)
      neg == t # <<>> /\ t[1] = "-"
      u == IF neg THEN Tail(t) ELSE t
      int == LeadingDigits(u)
      rest == SubSeq(u, Len(int) + 1, Len(u))
      frac == IF rest # <<>> /\ rest[1] = "." THEN LeadingDigits(Tail(rest))
              ELSE <<>>
      abs == ParseDigits(int, 0) * 100
               + ParseDigits(SubSeq(frac \o <<"0", "0">>, 1, 2), 0)
  IN  IF int = <<>> /\ frac = <<>> THEN [nan |-> TRUE, hundredths |-> 0]
      ELSE [nan |-> FALSE, hundredths |-> IF neg THEN 0 - abs ELSE abs]

\* The host names new URL knows in upper case, with their lower-case form
HostLower(host) ==
  IF host = "WWW.URBANSKETCHCOURSE.COM" THEN "www.urbansketchcourse.com"
  ELSE host

\* 1-based index of the first '?' or '#' of s, Len(s) + 1 when there is none
RECURSIVE PathEnd(_, _)
PathEnd(s, i) ==
  IF i > Len(s) \/ s[i] \in {"?", "#"} THEN i ELSE PathEnd(s, i + 1)

\* new URL(s) of an absolute http(s) URL spelled scheme, "/", "/", host, path:
\* the lower-cased hostname and the pathname ("/" when the URL has none);
\* threw for a string that is no absolute URL
URL(s) ==
  IF \/ Len(s) < 4
     \/ s[1] \notin {"https:", "http:"}
     \/ s[2] # "/" \/ s[3] # "/"
     \/ s[4] \in {"/", "?", "#"}
  THEN [threw |-> TRUE, hostname |-> "", pathname |-> <<>>]
  ELSE LET rest == SubSeq(s, 5, Len(s))
           p == SubSeq(rest, 1, PathEnd(rest, 1) - 1)
       IN  [threw    |-> FALSE,
            hostname |-> HostLower(s[4]),
            pathname |-> IF p = <<>> THEN <<"/">> ELSE p]

\* u.pathname.replace(/\/$/, '')
StripSlash(p) ==
  IF endsWith(p, <<"/">>) THEN SubSeq(p, 1, Len(p) - 1) ELSE p

\* classifyVisit without its rule for '/order-form'
classifyVisit_NoOrderFormRule(visit) ==
  IF ~Truthy(visit.url) THEN "other"
  ELSE
    LET u == URL(visit.url)
        host == u.hostname
        path == StripSlash(u.pathname)
    IN  IF u.threw THEN "other"
        ELSE IF host = "go.urbansketchcourse.com" THEN "landing"
        ELSE IF host = "www.urbansketchcourse.com"
          THEN (IF path = <<"/", "meta", ".", "json">> THEN "noise"
                ELSE "landing")
        ELSE IF host = "learn.urbansketch.com"
          THEN (IF startsWith(path, <<"/", "reg">>) THEN "order_form"
                ELSE IF startsWith(path, <<"/", "smm", "/", "buy">>)
                  THEN "order_form"
                ELSE IF startsWith(path, <<"/", "buy">>) THEN "order_form"
                ELSE IF startsWith(path, <<"/", "join", "-", "today">>)
                  THEN "order_form"
                ELSE IF /\ startsWith(path, <<"/", "plus">>)
                        /\ includes(path, <<"coaching">>)
                  THEN "order_form"
                ELSE "learn_other")
        ELSE "other"

\* classifyVisit(visit)
classifyVisit(visit) ==
  IF ~Truthy(visit.url) THEN "other"
  ELSE
    LET u == URL(visit.url)
        host == u.hostname
        path == StripSlash(u.pathname)
    IN  IF u.threw THEN "other"
        ELSE IF host = "go.urbansketchcourse.com" THEN "landing"
        ELSE IF host = "www.urbansketchcourse.com"
          THEN (IF path = <<"/", "meta", ".", "json">> THEN "noise"
                ELSE "landing")
        ELSE IF host = "learn.urbansketch.com"
          THEN (IF startsWith(path, <<"/", "reg">>) THEN "order_form"
                ELSE IF startsWith(path, <<"/", "smm", "/", "buy">>)
                  THEN "order_form"
                ELSE IF startsWith(path, <<"/", "buy">>) THEN "order_form"
                ELSE IF startsWith(path, <<"/", "join", "-", "today">>)
                  THEN "order_form"
                ELSE IF includes(path, <<"/", "order", "-", "form">>)
                  THEN "order_form"
                ELSE IF /\ startsWith(path, <<"/", "plus">>)
                        /\ includes(path, <<"coaching">>)
                  THEN "order_form"
                ELSE "learn_other")
        ELSE "other"

\* parseFloat(r.amount || 0)
AmountOf(r) == parseFloat(Or(r.amount, <<"0">>))

\* Separate referrals into free (lead gen) and paid (revenue)
freeReferrals(referrals) ==
  SelectSeq(referrals, LAMBDA r :
    /\ r.status \in {"paid", "unpaid", "pending"}
    /\ ~AmountOf(r).nan /\ AmountOf(r).hundredths = 0)

paidReferrals(referrals) ==
  SelectSeq(referrals, LAMBDA r :
    /\ r.status \in {"paid", "unpaid"}
    /\ ~AmountOf(r).nan /\ AmountOf(r).hundredths > 0)

\* Determine funnel type
funnelLabel(referrals) ==
  LET paidCount == Len(paidReferrals(referrals))
      freeCount == Len(freeReferrals(referrals))
      isFreeOnly == paidCount = 0 /\ freeCount > 0
      isPaidOnly == paidCount > 0 /\ freeCount = 0
      isMixed == paidCount > 0 /\ freeCount > 0
  IN  IF isFreeOnly THEN "FREE (lead gen)"
      ELSE IF isPaidOnly THEN "PAID (revenue)"
      ELSE IF isMixed THEN "MIXED (free + paid)"
      ELSE "NO CONVERSIONS"

\* The visit URLs AffiliateWP holds
Site(host) == <<"https:", "/", "/", host>>

Go == Site("go.urbansketchcourse.com")
Www == Site("www.urbansketchcourse.com")
Learn == Site("learn.urbansketch.com")

VisitUrls ==
  {NULL, <<>>, <<"not a url">>, <<"/", "reg", "/", "free">>,
   Go, Go \o StartPath, Go \o <<"/", "meta", ".", "json">>,
   Www \o <<"/", "courses", "/">>,
   Www \o <<"/", "meta", ".", "json">>,
   Www \o <<"/", "meta", ".", "json", "/">>,
   Www \o <<"/", "meta", ".", "json", "?", "v">>,
   Site("WWW.URBANSKETCHCOURSE.COM") \o <<"/", "meta", ".", "json">>,
   Www \o <<"/", "smm", "/", "meta", ".", "json">>,
   Learn, Learn \o <<"/">>,
   Learn \o <<"/", "reg", "/", "free">>,
   Learn \o <<"/", "reg", "/">>,
   Learn \o <<"/", "reg", "ister">>,
   Learn \o <<"/", "smm", "/", "buy", "-", "now">>,
   Learn \o <<"/", "smm", "/", "about">>,
   Learn \o <<"/", "buy", "/", "course">>,
   Learn \o <<"/", "buy", "ers", "-", "guide">>,
   Learn \o <<"/", "join", "-", "today", "/">>,
   Learn \o <<"/", "products", "/", "course", "/", "order", "-", "form", "/">>,
   Learn \o <<"/", "plus", "/", "coaching">>,
   Learn \o <<"/", "plus">>,
   Learn \o <<"/", "terms">>,
   Learn \o <<"/", "terms", "?", "next", "=", "/", "reg", "/", "free">>,
   Site("example.com") \o <<"/", "reg", "/", "free">>}

Referral(status, amount) == [status |-> status, amount |-> amount]

Zero == <<"0", ".", "0", "0">>
Price == <<"1", "9", ".", "9", "9">>

\* The referrals AffiliateWP holds: free and paid ones of every status, one
\* without an amount and one whose amount is no number
ReferralKinds ==
  {Referral(s, a) : s \in {"paid", "unpaid", "pending", "rejected"},
                    a \in {Zero, Price}}
    \cup {Referral("unpaid", NULL), Referral("paid", <<"n", "/", "a">>)}

\* The most records (visits and referrals together) of one period
MaxRecords == 2

\* main before it is called
ReportIdle ==
  [pc          |-> "idle",
   visits      |-> <<>>,
   referrals   |-> <<>>,
   classified  |-> <<>>,
   funnelLabel |-> NULL]

\* node pull-affwp-data.js: main starts the two fetches
main ==
  /\ script.pc = "idle"
  /\ script' = [ReportIdle EXCEPT !.pc = "fetching"]
  /\ UNCHANGED handlerVars

\* fetchAllVisits collects one more visit of the period
VisitFetched(visitUrl) ==
  /\ script.pc = "fetching"
  /\ Len(script.visits) + Len(script.referrals) < MaxRecords
  /\ script' = [script EXCEPT !.visits = Append(@, [url |-> visitUrl])]
  /\ UNCHANGED handlerVars

\* fetchAllReferrals collects one more referral of the period
ReferralFetched(r) ==
  /\ script.pc = "fetching"
  /\ Len(script.visits) + Len(script.referrals) < MaxRecords
  /\ script' = [script EXCEPT !.referrals = Append(@, r)]
  /\ UNCHANGED handlerVars

\* Promise.all resolves: main classifies the visits, separates the referrals
\* and prints `Funnel type: ${funnelLabel}`
PrintReport ==
  /\ script.pc = "fetching"
  /\ script' = [script EXCEPT
                  !.pc = "reported",
                  !.classified = [i \in 1..Len(script.visits) |->
                                    classifyVisit(script.visits[i])],
                  !.funnelLabel = funnelLabel(script.referrals)]
  /\ UNCHANGED handlerVars

InitReport ==
  /\ AB_TESTS = Deployed
  /\ env = Env(<<"token">>, NULL)
  /\ jar = EmptyJar
  /\ visits = <<>>
  /\ firstVariant = [p \in ExperimentPaths |-> NULL]
  /\ parked = IdleContext
  /\ script = ReportIdle
  /\ Idle

NextReport ==
  \/ main
  \/ \E visitUrl \in VisitUrls : VisitFetched(visitUrl)
  \/ \E r \in ReferralKinds : ReferralFetched(r)
  \/ PrintReport

SpecReport == InitReport /\ [][NextReport]_vars

-----------------------------------------------------------------------------
(* The reporting script: constraint identification                         *)

\* OfferNomics benchmarks, in percent
lpToOfBenchmark == 3
ofCompletionBenchmark == 60

\* The diagnosis with the order form looked at before the landing page
ConstraintIdentification_OrderFormFirst(m) ==
  IF m.lpCount = 0 THEN "DATA"
  ELSE IF ~(m.ofCount > 0 /\ m.conversionCount * 100 >= 60 * m.ofCount)
    THEN "CAMPAIGN: order form"
  ELSE IF ~(m.ofCount * 100 >= 3 * m.lpCount) THEN "CAMPAIGN: landing page"
  ELSE IF /\ m.adSpend > 0 /\ m.paidCount > 0
          /\ m.adSpend * m.paidCount > m.totalRevenue * m.conversionCount
    THEN "ECONOMIC"
  ELSE IF m.adSpend > 0 /\ m.paidCount = 0 /\ m.freeCount > 0
    THEN "FREE FUNNEL"
  ELSE "NO CONSTRAINT"

\* main's calculations on the counts and the if-chain under CONSTRAINT
\* IDENTIFICATION: the diagnosis it prints. Money is in hundredths; a rate
\* x / y * 100 >= b with y > 0 is compared as x * 100 >= b * y, and
\* cpa <= aov, both denominators being positive, as
\* adSpend * paidCount <= totalRevenue * conversionCount
ConstraintIdentification(m) ==
  LET lpToOfOk ==
        IF m.lpCount > 0
        THEN m.ofCount * 100 >= lpToOfBenchmark * m.lpCount
        ELSE 0 >= lpToOfBenchmark
      ofCompletionOk ==
        IF m.ofCount > 0
        THEN m.conversionCount * 100 >= ofCompletionBenchmark * m.ofCount
        ELSE 0 >= ofCompletionBenchmark
      economicsOk ==
        IF m.adSpend > 0 /\ m.paidCount > 0
        THEN (IF m.adSpend * m.paidCount
                   <= m.totalRevenue * m.conversionCount
              THEN "true" ELSE "false")
        ELSE "null"
      isFreeOnly == m.paidCount = 0 /\ m.freeCount > 0
  IN  IF m.lpCount = 0 THEN "DATA"
      ELSE IF ~lpToOfOk THEN "CAMPAIGN: landing page"
      ELSE IF ~ofCompletionOk THEN "CAMPAIGN: order form"
      ELSE IF m.adSpend > 0 /\ m.paidCount > 0 /\ economicsOk # "true"
        THEN "ECONOMIC"
      ELSE IF m.adSpend > 0 /\ isFreeOnly THEN "FREE FUNNEL"
      ELSE "NO CONSTRAINT"

\* The counts and sums of a period: paid and free referrals are disjoint
\* parts of the conversions, and the revenue is the sum of the paid amounts
Periods ==
  {m \in [lpCount         : {0, 100},
          ofCount         : {0, 2, 3, 5},
          conversionCount : {0, 2, 3, 5},
          paidCount       : {0, 1},
          freeCount       : {0, 2},
          adSpend         : {0, 2000, 5997, 9000},
          totalRevenue    : {0, 1999}] :
     /\ m.paidCount + m.freeCount <= m.conversionCount
     /\ m.totalRevenue > 0 <=> m.paidCount > 0}

\* main before it has its data
DiagnosisIdle == [pc |-> "idle", printed |-> <<>>]

\* main has fetched and counted the visits and referrals of a period
Calculate(m) ==
  /\ script.pc = "idle"
  /\ script' = [pc |-> "calculated", period |-> m, printed |-> <<>>]
  /\ UNCHANGED handlerVars

\* main prints the report, the constraint identification at its end
Identify ==
  /\ script.pc = "calculated"
  /\ script' = [script EXCEPT
                  !.pc = "printed",
                  !.printed = Append(@, ConstraintIdentification(script.period))]
  /\ UNCHANGED handlerVars

InitDiagnosis ==
  /\ AB_TESTS = Deployed
  /\ env = Env(<<"token">>, NULL)
  /\ jar = EmptyJar
  /\ visits = <<>>
  /\ firstVariant = [p \in ExperimentPaths |-> NULL]
  /\ parked = IdleContext
  /\ script = DiagnosisIdle
  /\ Idle

NextDiagnosis ==
  \/ \E m \in Periods : Calculate(m)
  \/ Identify

SpecDiagnosis == InitDiagnosis /\ [][NextDiagnosis]_vars

-----------------------------------------------------------------------------
(* The reporting script: the paginated fetches, record by record           *)

\* batchSize of fetchAllReferrals
referralBatchSize == 200

\* The API holds a sequence of records, DESC by date: `inWindow` records not
\* older than startDate, numbered 1..inWindow, then `older` records. This is
\* the array apiFetch resolves with for number and offset: its length and
\* the number of its leading records that are not older than startDate
Batch(inWindow, older, number, offset) ==
  LET total == inWindow + older
      len == IF offset >= total THEN 0
             ELSE IF offset + number > total THEN total - offset
             ELSE number
      last == IF offset + len > inWindow THEN inWindow ELSE offset + len
  IN  [len |-> len, fresh |-> IF last > offset THEN last - offset ELSE 0]

\* allVisits.push / allReferrals.push of the records from..to, the list kept
\* as ranges of record numbers
Push(ranges, from, to) ==
  IF to < from THEN ranges
  ELSE IF ranges # <<>> /\ ranges[Len(ranges)][2] + 1 = from
    THEN [ranges EXCEPT ![Len(ranges)] = <<@[1], to>>]
  ELSE Append(ranges, <<from, to>>)

\* The fetch before it is called
PagesIdle ==
  [pc |-> "idle", endpoint |-> "none", hasMaxBatches |-> FALSE,
   inWindow |-> 0, older |-> 0, batchSize |-> 0, batchNum |-> 0,
   offset |-> 0, keepGoing |-> TRUE, all |-> <<>>, stop |-> "none"]

\* fetchAllVisits is called, in the copy with the batch limit or in the one
\* without
fetchAllVisitsOf(hasMaxBatches, inWindow, older) ==
  /\ script.pc = "idle"
  /\ script' = [PagesIdle EXCEPT !.pc = "loop", !.endpoint = "/visits",
                                 !.hasMaxBatches = hasMaxBatches,
                                 !.inWindow = inWindow, !.older = older,
                                 !.batchSize = batchSize]
  /\ UNCHANGED handlerVars

\* fetchAllReferrals is called
fetchAllReferrals(inWindow, older) ==
  /\ script.pc = "idle"
  /\ script' = [PagesIdle EXCEPT !.pc = "loop", !.endpoint = "/referrals",
                                 !.inWindow = inWindow, !.older = older,
                                 !.batchSize = referralBatchSize]
  /\ UNCHANGED handlerVars

\* One pass of the loop with the date test left out: the whole batch is kept
Iterate_NoDateTest ==
  /\ script.pc = "loop"
  /\ IF /\ script.keepGoing
        /\ script.hasMaxBatches => script.batchNum < maxBatches
     THEN LET batch == Batch(script.inWindow, script.older,
                             script.batchSize, script.offset)
          IN  script' =
                IF batch.len = 0
                THEN [script EXCEPT !.pc = "returned", !.stop = "empty",
                                    !.batchNum = @ + 1]
                ELSE [script EXCEPT
                        !.batchNum = @ + 1,
                        !.all = Push(@, script.offset + 1,
                                     script.offset + batch.len),
                        !.pc = IF batch.len < script.batchSize
                               THEN "returned" ELSE "loop",
                        !.stop = IF batch.len < script.batchSize
                                 THEN "short" ELSE "none",
                        !.offset = IF batch.len < script.batchSize
                                   THEN @ ELSE @ + script.batchSize]
     ELSE script' = [script EXCEPT !.pc = "returned", !.stop = "limit"]
  /\ UNCHANGED handlerVars

\* One pass of the loop: its test, the apiFetch, the for loop over the batch
\* and the test of the batch length; or the return when the test fails
Iterate ==
  /\ script.pc = "loop"
  /\ IF /\ script.keepGoing
        /\ script.hasMaxBatches => script.batchNum < maxBatches
     THEN LET batch == Batch(script.inWindow, script.older,
                             script.batchSize, script.offset)
          IN  script' =
                IF batch.len = 0
                THEN [script EXCEPT !.pc = "returned", !.stop = "empty",
                                    !.batchNum = @ + 1]
                ELSE [script EXCEPT
                        !.batchNum = @ + 1,
                        !.all = Push(@, script.offset + 1,
                                     script.offset + batch.fresh),
                        !.keepGoing = batch.fresh = batch.len,
                        !.pc = IF batch.len < script.batchSize
                               THEN "returned" ELSE "loop",
                        !.stop = IF batch.len < script.batchSize
                                 THEN "short" ELSE "none",
                        !.offset = IF batch.len < script.batchSize
                                   THEN @ ELSE @ + script.batchSize]
     ELSE script' = [script EXCEPT
                       !.pc = "returned",
                       !.stop = IF script.keepGoing THEN "limit" ELSE "old"]
  /\ UNCHANGED handlerVars

\* The lengths of the two parts of the API's sequence: around one and two
\* batches, and around the 75,000 records of 150 batches of visits
VisitCounts ==
  {0, 1, batchSize - 1, batchSize, batchSize + 1, 2 * batchSize,
   maxBatches * batchSize, maxBatches * batchSize + 1}

ReferralCounts ==
  {0, 1, referralBatchSize - 1, referralBatchSize, referralBatchSize + 1,
   2 * referralBatchSize}

OlderCounts == {0, 1, batchSize}

InitPages ==
  /\ AB_TESTS = Deployed
  /\ env = Env(<<"token">>, NULL)
  /\ jar = EmptyJar
  /\ visits = <<>>
  /\ firstVariant = [p \in ExperimentPaths |-> NULL]
  /\ parked = IdleContext
  /\ script = PagesIdle
  /\ Idle

NextPages ==
  \/ \E hasMaxBatches \in BOOLEAN, n \in VisitCounts, m \in OlderCounts :
       fetchAllVisitsOf(hasMaxBatches, n, m)
  \/ \E n \in ReferralCounts, m \in OlderCounts : fetchAllReferrals(n, m)
  \/ Iterate

SpecPages == InitPages /\ [][NextPages]_vars

-----------------------------------------------------------------------------
(* The tracking-only worker (src/unnamed/part_000), on the request in      *)
(* flight, its environment and the asset response `resp`                   *)

\* Only process tracking for HTML page requests with a ref parameter: the
\* handler returns the fetched response before it reads the cookies
TrackerPassesThrough(resp) ==
  LET contentType == Or(HeaderGet(resp.headers, "content-type"), <<>>)
      isHtmlContent == includes(contentType, <<"text", "/", "html">>)
      isHtmlPath == \/ endsWith(url.pathname, <<"/">>)
                    \/ endsWith(url.pathname, <<".", "html">>)
                    \/ url.pathname = <<>>
  IN  ~Truthy(affiliateId) \/ (~isHtmlContent /\ ~isHtmlPath)

\* parseCookies runs after that test, and throws on a malformed value
TrackerThrows(resp) ==
  ~TrackerPassesThrough(resp) /\ parseCookies(cookieHeader).threw

\* The POSTs of the handler: none when it passed the response through, when
\* credit-last is off and both cookies exist, or when the configuration is
\* missing
TrackerCalls(resp) ==
  LET parsed == parseCookies(cookieHeader)
      existingAffiliate == Get(parsed.map, AFFILIATE_COOKIE)
      existingVisit == Get(parsed.map, VISIT_COOKIE)
  IN  IF \/ TrackerPassesThrough(resp)
         \/ parsed.threw
         \/ (~creditLast /\ Truthy(existingAffiliate) /\ Truthy(existingVisit))
         \/ ~Truthy(parentUrl)
         \/ ~Truthy(Or(env.AFFWP_PUBLIC_KEY, <<>>))
         \/ ~Truthy(Or(env.AFFWP_TOKEN, <<>>))
      THEN <<>>
      ELSE <<[affiliate_id |-> affiliateId,
              url          |-> Origin \o url.pathname,
              campaign     |-> campaign]>>

\* What the handler returns: the fetched response on each early return, else
\* a new response with the tracking cookies, `id` being the visit id
TrackerResponse(resp, id) ==
  LET maxAge == NumberString(IF cookieDays = NaN THEN NaN
                             ELSE cookieDays * SecondsPerDay)
      r1 == AppendSetCookie(resp,
                            SetCookie(AFFILIATE_COOKIE, affiliateId, maxAge))
      r2 == IF Truthy(campaign)
            THEN AppendSetCookie(r1, SetCookie(CAMPAIGN_COOKIE,
                                     encodeURIComponent(campaign), maxAge))
            ELSE r1
  IN  IF TrackerCalls(resp) = <<>> THEN resp
      ELSE IF Truthy(id)
        THEN AppendSetCookie(r2, SetCookie(VISIT_COOKIE, id, maxAge))
      ELSE r2

-----------------------------------------------------------------------------
(* Properties                                                              *)

\* The name a Set-Cookie header gives its cookie, and the value a browser
\* keeps for it
WrittenName(header) == trim(SubSeq(header, 1, indexOf(header, "=") - 1))
WrittenValue(header) == StoreCookie(WrittenName(header) :> NULL,
                                    header)[WrittenName(header)]

\* The Set-Cookie headers of the response whose cookie is `name`
Written(name) ==
  SelectSeq(SetCookies(response[1]), LAMBDA h : WrittenName(h[2]) = name)

\* The Set-Cookie headers of the response whose cookie name starts with prefix
WrittenWithPrefix(prefix) ==
  SelectSeq(SetCookies(response[1]),
            LAMBDA h : SubSeq(WrittenName(h[2]), 1, Len(prefix)) = prefix)

\* The experiment of the request in flight, if its path has one
TestOfRequest == TestPath(url.pathname)
HasTest == pc # "idle" /\ TestOfRequest \in DOMAIN AB_TESTS

\* The cookies of the request in flight name a configured variant of its test
StickyCookie ==
  /\ HasTest
  /\ Find(AB_TESTS[TestOfRequest],
          Get(cookies, CookieName(TestKey(TestOfRequest)))) # 0

StickyVariant ==
  AB_TESTS[TestOfRequest][Find(AB_TESTS[TestOfRequest],
                               Get(cookies, CookieName(TestKey(TestOfRequest))))]

\* C1: a request to an experiment path whose parsed cookies hold ab_<key> =
\* the name of a configured variant is answered from that variant's content
\* path for every draw, is reported as not new, and gets no ab_ Set-Cookie.
C1_StickyReuse ==
  StickyCookie =>
    /\ pc \in {"assets", "api", "done"}
    /\ pc = "assets" =>
         \A rand \in Draws :
           resolveABTest(url.pathname, cookies, rand)
             = <<[testKey |-> TestKey(TestOfRequest),
                  variant |-> StickyVariant, isNew |-> FALSE]>>
    /\ abResult # <<>>
    /\ abResult[1].variant = StickyVariant
    /\ ~abResult[1].isNew
    /\ assetPath = StickyVariant.path
    /\ pc = "done" => WrittenWithPrefix(AB_COOKIE_PREFIX) = <<>>

\* C1's case: a visitor holding ab_...=variant-b got variant-b's page
C1_Witness ==
  /\ pc = "done"
  /\ StickyCookie
  /\ StickyVariant.name = VariantBName
  /\ response[1].page = StartPath \o VariantBName

\* The request in flight got past parseCookies and resolveABTest
Resolved == pc \in {"assets", "api", "done"}

\* C2: for a visitor who started without cookies and stores every Set-Cookie,
\* once a request to an experiment path was answered with variant V, every
\* later request to that path (with or without the trailing slash) is
\* answered, from V's content path, and sets no further ab_ cookie.
C2_SessionSticky ==
  (HasTest /\ firstVariant[TestOfRequest] # NULL) =>
    /\ Resolved
    /\ abResult # <<>>
    /\ abResult[1].variant.name = firstVariant[TestOfRequest]
    /\ assetPath = abResult[1].variant.path
    /\ pc = "done" => WrittenWithPrefix(AB_COOKIE_PREFIX) = <<>>

\* C3: the fetch handler returns a response for every request and never
\* throws, whatever the Cookie header, the query string, the asset response,
\* the API's answer and the experiment table.
C3_NeverThrows == pc # "threw"

\* The attribution call of the request in flight was made and failed: by a
\* transport error, by a non-success status, or by an unparseable body
AttributionFailed ==
  pc = "done" /\ apiCalls # <<>> /\ apiResponse \in {"error", "reject", "garbled"}

\* The cookies a failed attribution call leaves in the response
FailureCookies ==
  /\ Len(Written(AFFILIATE_COOKIE)) = 1
  /\ WrittenValue(Written(AFFILIATE_COOKIE)[1][2]) = affiliateId
  /\ Truthy(campaign) => Len(Written(CAMPAIGN_COOKIE)) = 1
  /\ Written(VISIT_COOKIE) = <<>>

\* `body` without the symbols of `tag` wherever they stand together
RECURSIVE WithoutTag(_, _)
WithoutTag(body, tag) ==
  IF body = <<>> THEN <<>>
  ELSE IF Len(body) >= Len(tag) /\ SubSeq(body, 1, Len(tag)) = tag
  THEN WithoutTag(SubSeq(body, Len(tag) + 1, Len(body)), tag)
  ELSE <<body[1]>> \o WithoutTag(Tail(body), tag)

\* C4 (as stated): after a failed attribution call the response carries
\* affwp_affiliate_id, carries affwp_campaign if the campaign is non-empty,
\* carries no affwp_visit_id, and has the status and the body of the fetched
\* page.
C4_KeepsStatusAndBody ==
  AttributionFailed =>
    /\ FailureCookies
    /\ response[1].status = fetched[1].status
    /\ response[1].body = fetched[1].body

\* C4 (amended): after a failed attribution call the response carries
\* affwp_affiliate_id, carries affwp_campaign if the campaign is non-empty,
\* carries no affwp_visit_id, has the status of the fetched page, and has its
\* body: unchanged when the path has no experiment, and otherwise changed by
\* nothing but the variant tag of the assignment.
C4_FailureNonFatal ==
  AttributionFailed =>
    /\ FailureCookies
    /\ response[1].status = fetched[1].status
    /\ abResult = <<>> => response[1].body = fetched[1].body
    /\ abResult # <<>> =>
         WithoutTag(response[1].body,
                    ClarityTag(abResult[1].testKey, abResult[1].variant.name))
           = fetched[1].body

\* C4's case: the POST for ?ref=7&campaign=50%25 on the experiment's page
\* failed by a transport error
C4_Witness ==
  /\ AttributionFailed
  /\ apiResponse = "error"
  /\ Truthy(campaign)
  /\ abResult # <<>>
  /\ response[1].body # fetched[1].body

\* The request in flight was answered, its fetched response is not classified
\* as HTML and its query string carries no referral id
PlainAsset ==
  pc = "done" /\ ~isHtml(fetched[1]) /\ ~Truthy(affiliateId)

\* The worker returned the fetched response itself and made no POST
PassedThrough ==
  /\ returned = "same"
  /\ response = fetched
  /\ SetCookies(response[1]) = <<>>
  /\ apiCalls = <<>>

\* C5 (as stated): a response not classified as HTML to a request without a
\* referral id is returned unchanged: no Set-Cookie, the same body, no POST.
C5_NonHtmlUnchanged == PlainAsset => PassedThrough

\* C5 (amended): a response not classified as HTML to a request without a
\* referral id, for which no fresh variant assignment was made, is returned
\* unchanged: no Set-Cookie, the same body, no POST.
C5_NonHtmlNoDrawUnchanged ==
  (PlainAsset /\ ~needsABCookie) => PassedThrough

\* C5's case: a visitor holding the assignment cookie asks for the
\* experiment's path without its slash and gets a 404 without content type
C5_Witness ==
  /\ PlainAsset
  /\ abResult # <<>>
  /\ ~abResult[1].isNew
  /\ fetched[1].status = 404

\* C6 (as stated): with creditLast = false and both affwp_affiliate_id and
\* affwp_visit_id among the request's cookies, a request with a referral id
\* makes no POST and its response has no Set-Cookie header.
C6_NoNewSetCookie ==
  (/\ Resolved
   /\ ~creditLast
   /\ Get(cookies, AFFILIATE_COOKIE) # NULL
   /\ Get(cookies, VISIT_COOKIE) # NULL
   /\ Truthy(affiliateId)) =>
    /\ apiCalls = <<>>
    /\ pc = "done" => SetCookies(response[1]) = <<>>

\* C6 (amended): with creditLast = false and both affwp_affiliate_id and
\* affwp_visit_id among the request's cookies with non-empty values, a
\* request with a referral id makes no POST and its response sets none of
\* affwp_affiliate_id, affwp_visit_id and affwp_campaign.
C6_CreditFirst ==
  (/\ Resolved
   /\ ~creditLast
   /\ Truthy(Get(cookies, AFFILIATE_COOKIE))
   /\ Truthy(Get(cookies, VISIT_COOKIE))
   /\ Truthy(affiliateId)) =>
    /\ apiCalls = <<>>
    /\ pc = "done" =>
         /\ Written(AFFILIATE_COOKIE) = <<>>
         /\ Written(VISIT_COOKIE) = <<>>
         /\ Written(CAMPAIGN_COOKIE) = <<>>

\* C6's case: cookies affwp_affiliate_id=5 and affwp_visit_id=9, creditLast
\* false, an HTML page requested with ?ref=7
C6_Witness ==
  /\ pc = "done"
  /\ ~creditLast
  /\ Get(cookies, AFFILIATE_COOKIE) = <<"5">>
  /\ Get(cookies, VISIT_COOKIE) = <<"9">>
  /\ affiliateId = <<"7">>
  /\ isHtml(fetched[1])
  /\ Configured

\* The handler of an HTML request with a referral id, past the asset fetch
HtmlWithRef ==
  pc \in {"api", "done"} /\ isHtml(fetched[1]) /\ Truthy(affiliateId)

\* The POST was sent for the request's referral id, and the response sets
\* affwp_affiliate_id to it
TrackedAsRequested ==
  /\ Len(apiCalls) = 1
  /\ apiCalls[1].affiliate_id = affiliateId
  /\ pc = "done" =>
       /\ Len(Written(AFFILIATE_COOKIE)) = 1
       /\ WrittenValue(Written(AFFILIATE_COOKIE)[1][2]) = affiliateId

\* C7 (as stated): with creditLast = true every HTML request with a referral
\* id sends the POST and sets affwp_affiliate_id to the referral id, whatever
\* affwp_* cookies it carries.
C7_AlwaysInvokes == (HtmlWithRef /\ creditLast) => TrackedAsRequested

\* C7 (amended): with creditLast = true and the API's base URL, public key
\* and token all configured, every HTML request with a referral id sends the
\* POST and sets affwp_affiliate_id to the referral id, whatever affwp_*
\* cookies it carries.
C7_CreditLast ==
  (HtmlWithRef /\ creditLast /\ Configured) => TrackedAsRequested

\* C7's case: cookies affwp_affiliate_id=5 and affwp_visit_id=9, creditLast
\* true, an HTML page requested with ?ref=7 and answered
C7_Witness ==
  /\ pc = "done"
  /\ creditLast
  /\ Configured
  /\ Get(cookies, AFFILIATE_COOKIE) = <<"5">>
  /\ Get(cookies, VISIT_COOKIE) = <<"9">>
  /\ affiliateId = <<"7">>
  /\ isHtml(fetched[1])

\* C8: whenever the visitor's jar holds both affwp_affiliate_id and
\* affwp_visit_id, the visit id is that of a visit AffiliateWP registered for
\* that affiliate id.
C8_CookiesConsistent ==
  (Truthy(jar[AFFILIATE_COOKIE]) /\ Truthy(jar[VISIT_COOKIE])) =>
    \E k \in 1..Len(visits) :
      /\ VisitId(k) = jar[VISIT_COOKIE]
      /\ visits[k] = jar[AFFILIATE_COOKIE]

RECURSIVE SumOfWeights(_)
SumOfWeights(variants) ==
  IF variants = <<>> THEN 0
  ELSE variants[1].weight + SumOfWeights(Tail(variants))

\* The request in flight is to an experiment and carries no cookie naming one
\* of its variants: resolveABTest is about to draw, or drew
FreshDraw == pc = "assets" /\ HasTest /\ ~StickyCookie

\* How many of the RandScale draw intervals select variant i of the request's
\* experiment
DrawsSelecting(i) ==
  LET variants == AB_TESTS[TestOfRequest]
  IN  Cardinality({rand \in Draws :
        resolveABTest(url.pathname, cookies, rand)[1].variant = variants[i]})

C10_Independent ==
  (Resolved /\ HasTest /\ firstVariant[TestOfRequest] = NULL) =>
    abResult[1].isNew

\* C11: a request whose handler awaits the attribution call is never stalled
\* for good: in every state in which the handler waits for the API, a step
\* that resumes it (an answer, a failure, a timeout treated as a failure) can
\* be taken, even if the API never answers.
C11_NeverStalls ==
  pc = "api" => ENABLED (\E o \in Outcomes : ApiRespond(o))

\* The base URL, the public key or the token is absent from the environment
ConfigMissing ==
  \/ ~Truthy(env.AFFWP_PARENT_URL)
  \/ ~Truthy(env.AFFWP_PUBLIC_KEY)
  \/ ~Truthy(env.AFFWP_TOKEN)

\* C12: when the base URL, the public key or the token is absent, no POST is
\* sent to the API, the handler never waits for it, and the response has the
\* status of the fetched page.
C12_ConfigMissingSkips ==
  ConfigMissing =>
    /\ apiCalls = <<>>
    /\ pc # "api"
    /\ pc = "done" => response[1].status = fetched[1].status

\* C12's case: an HTML page requested with a referral id, answered by a
\* worker without its public key
C12_Witness ==
  /\ pc = "done"
  /\ env.AFFWP_PUBLIC_KEY = NULL
  /\ Truthy(affiliateId)
  /\ isHtml(fetched[1])
  /\ fetched[1].status = 200

\* The value of the request's cookie for the experiment of its path
AssignmentCookie == Get(cookies, CookieName(TestKey(TestOfRequest)))

\* The request in flight is to an experiment with variants, and its ab_<key>
\* cookie holds a value that names none of them
Drifted ==
  /\ HasTest
  /\ pc # "threw"
  /\ AB_TESTS[TestOfRequest] # <<>>
  /\ Truthy(AssignmentCookie)
  /\ \A i \in 1..Len(AB_TESTS[TestOfRequest]) :
       AB_TESTS[TestOfRequest][i].name # AssignmentCookie

\* C13: a request whose ab_<key> cookie names no configured variant of its
\* experiment gets a fresh weighted draw: for every draw resolveABTest returns
\* the drawn variant as new, that variant's path is fetched, and the response
\* carries one ab_<key> Set-Cookie with the drawn variant's name.
C13_ReassignOnDrift ==
  Drifted =>
    /\ Resolved
    /\ abResult # <<>>
    /\ abResult[1].isNew
    /\ abResult[1].variant.name # AssignmentCookie
    /\ assetPath = abResult[1].variant.path
    /\ pc = "assets" =>
         \A rand \in Draws :
           resolveABTest(url.pathname, cookies, rand)
             = <<[testKey |-> TestKey(TestOfRequest),
                  variant |-> Draw(AB_TESTS[TestOfRequest], rand),
                  isNew   |-> TRUE]>>
    /\ pc = "done" =>
         /\ Len(WrittenWithPrefix(AB_COOKIE_PREFIX)) = 1
         /\ WrittenName(WrittenWithPrefix(AB_COOKIE_PREFIX)[1][2])
              = CookieName(TestKey(TestOfRequest))
         /\ WrittenValue(WrittenWithPrefix(AB_COOKIE_PREFIX)[1][2])
              = abResult[1].variant.name

\* C13's case: a visitor holding ab_...=variant-c, a variant since removed,
\* was drawn into variant-b and got its cookie
C13_Witness ==
  /\ Drifted
  /\ pc = "done"
  /\ AssignmentCookie = <<"variant", "-", "c">>
  /\ abResult[1].variant.name = VariantBName
  /\ WrittenWithPrefix(AB_COOKIE_PREFIX) # <<>>

\* The request in flight is to an experiment whose variant list is empty or
\* whose weights sum to 0
Inert ==
  /\ HasTest
  /\ \/ AB_TESTS[TestOfRequest] = <<>>
     \/ SumOfWeights(AB_TESTS[TestOfRequest]) = 0

\* C14: a request to the path of an experiment without variants, or with
\* weights that sum to 0, is handled as if no experiment were configured: the
\* handler does not throw, no assignment is made, the requested path is
\* fetched, and the response has no ab_ cookie and no tag.
C14_InertExperiment ==
  Inert =>
    /\ pc # "threw"
    /\ Resolved =>
         /\ abResult = <<>>
         /\ assetPath = url.pathname
    /\ pc = "done" =>
         /\ WrittenWithPrefix(AB_COOKIE_PREFIX) = <<>>
         /\ response[1].body = fetched[1].body

\* The pathname of the request in flight with a slash appended
Slashed == url.pathname \o <<"/">>

\* The variants of the experiment at `path`, none when it has no experiment
VariantsAt(path) ==
  IF path \in DOMAIN AB_TESTS
  THEN {AB_TESTS[path][i] : i \in 1..Len(AB_TESTS[path])}
  ELSE {}

\* C15: a request path without a trailing slash and without a '.' resolves to
\* the experiment entry, the key and the cookie name of the same path with a
\* trailing slash; a path with a '.' is looked up as it is.
C15_PathNormalization ==
  pc # "idle" =>
    /\ (~endsWith(url.pathname, <<"/">>) /\ ~includes(url.pathname, <<".">>)) =>
         /\ TestPath(url.pathname) = Slashed
         /\ TestPath(url.pathname) = TestPath(Slashed)
         /\ CookieName(TestKey(TestPath(url.pathname)))
              = CookieName(TestKey(TestPath(Slashed)))
         /\ Resolved =>
              /\ abResult = <<>> <=> Slashed \notin DOMAIN AB_TESTS
              /\ abResult # <<>> =>
                   /\ abResult[1].testKey = TestKey(Slashed)
                   /\ abResult[1].variant \in VariantsAt(Slashed)
    /\ includes(url.pathname, <<".">>) =>
         /\ TestPath(url.pathname) = url.pathname
         /\ Resolved =>
              (abResult = <<>> <=> url.pathname \notin DOMAIN AB_TESTS)

\* C15's case: /beginners-course/start, without the slash, was answered with
\* a variant of the experiment at /beginners-course/start/
C15_Witness ==
  /\ pc = "done"
  /\ url.pathname = StartNoSlash
  /\ abResult # <<>>
  /\ abResult[1].testKey = TestKey(StartPath)
  /\ abResult[1].variant.name = VariantBName

\* The value the handler meant the cookie `name` to hold
Original(name) ==
  CASE name = AFFILIATE_COOKIE -> affiliateId
    [] name = CAMPAIGN_COOKIE -> campaign
    [] name = VISIT_COOKIE -> visitId
    [] OTHER -> abResult[1].variant.name

\* The name=value of a Set-Cookie header, as a Cookie header carries it back
SentBack(header) == split(header, ";")[1]

\* C16: every cookie the response sets, sent back as name=value in a Cookie
\* header and parsed by parseCookies, yields under its name the value the
\* handler wrote: the referral id, the campaign, the visit id, the variant
\* name.
C16_CookieRoundTrip ==
  pc = "done" =>
    \A i \in 1..Len(SetCookies(response[1])) :
      LET header == SetCookies(response[1])[i][2]
          parsed == parseCookies(SentBack(header))
      IN  /\ ~parsed.threw
          /\ Get(parsed.map, WrittenName(header))
               = Original(WrittenName(header))

\* The request in flight was answered with a response classified as HTML,
\* under an assignment
TaggedPage == pc = "done" /\ abResult # <<>> /\ isHtml(fetched[1])

\* The positions of the head's closing tag in the fetched body
HeadEnds == {i \in 1..Len(fetched[1].body) : fetched[1].body[i] = "</head>"}

\* The returned body is the fetched body with one script block, carrying the
\* experiment key and the variant name, right before the head's closing tag
OneTagBeforeHeadEnd ==
  LET tag == ClarityTag(abResult[1].testKey, abResult[1].variant.name)
      body == fetched[1].body
  IN  /\ \E i \in HeadEnds :
           response[1].body
             = SubSeq(body, 1, i - 1) \o tag \o SubSeq(body, i, Len(body))
      /\ Len(response[1].body) = Len(body) + Len(tag)
      /\ WithoutTag(response[1].body, tag) = body

\* C17 (as stated): the body of an HTML response under an active experiment
\* is the fetched body with exactly one script block, right before the head's
\* closing tag, carrying the experiment key and the variant name.
C17_ExactlyOneTag == TaggedPage => OneTagBeforeHeadEnd

\* C17 (amended): the body of an HTML response under an active experiment
\* whose document has exactly one head element is the fetched body with
\* exactly one script block, right before the head's closing tag, carrying the
\* experiment key and the variant name; a body without a head element is
\* returned as it was fetched.
C17_OneTagPerHead ==
  TaggedPage =>
    /\ Cardinality(HeadEnds) = 1 => OneTagBeforeHeadEnd
    /\ HeadEnds = {} => response[1].body = fetched[1].body

\* C17's case: variant-b's page, tagged
C17_Witness ==
  /\ TaggedPage
  /\ Cardinality(HeadEnds) = 1
  /\ abResult[1].variant.name = VariantBName
  /\ response[1].body # fetched[1].body

\* C19: every response the handler returns has the status of the fetched
\* response and the content of the fetched page, and its headers are those
\* the asset store set, in their order, followed by nothing but the Set-Cookie
\* headers the worker appended.
C19_FetchPassesThrough ==
  pc = "done" =>
    /\ response[1].status = fetched[1].status
    /\ response[1].page = fetched[1].page
    /\ Len(response[1].headers) >= Len(fetched[1].headers)
    /\ SubSeq(response[1].headers, 1, Len(fetched[1].headers))
         = fetched[1].headers
    /\ \A i \in (Len(fetched[1].headers) + 1)..Len(response[1].headers) :
         response[1].headers[i][1] = "set-cookie"

\* C19's case: a 404 of the asset store, returned as a copy with cookies
C19_Witness ==
  /\ pc = "done"
  /\ returned = "copy"
  /\ fetched[1].status = 404
  /\ SetCookies(response[1]) # <<>>

\* C20: fetchAllVisits sends at most 150 batch requests and collects at most
\* 75,000 visits, whatever the API answers; each pass of its loop sends one
\* more request, so it ends within 150 passes.
C20_BoundedFetch ==
  /\ script.requests <= maxBatches
  /\ script.allVisits <= maxBatches * batchSize

\* The response the handler in flight returns when it is handled alone: the
\* fetched response itself when nothing is to do, else the copy with the
\* cookies and the tag that its own request, assignment and visit id call for
ResponseAlone ==
  IF ~needsAffiliate(fetched[1]) /\ ~needsABCookie
     /\ ~needsVariantTag(fetched[1])
  THEN fetched[1]
  ELSE Compose(fetched[1], needsAffiliate(fetched[1]) /\ shouldTrack,
               IF apiResponse \in Registered THEN visitId ELSE NULL)

\* C18: whatever the interleaving of two concurrently handled requests, what
\* a handler holds and returns is determined by its own request: its cookies
\* are those of its Cookie header, its assignment is one that resolveABTest
\* gives for its path and cookies, the path it fetched and the POST it sent
\* are those of its assignment and query, and its response is the one it
\* returns when handled alone.
C18_Isolated ==
  Resolved =>
    /\ cookies = parseCookies(cookieHeader).map
    /\ \E rand \in Draws :
         abResult = resolveABTest(url.pathname, cookies, rand)
    /\ assetPath = IF abResult # <<>> THEN abResult[1].variant.path
                   ELSE url.pathname
    /\ fetched # <<>> => fetched[1].page = assetPath
    /\ apiCalls # <<>> =>
         /\ apiCalls = <<ApiCall>>
         /\ needsAffiliate(fetched[1]) /\ shouldTrack /\ Configured
    /\ pc = "api" => apiCalls # <<>>
    /\ pc = "done" => response[1] = ResponseAlone

\* C18's case: a handler returned variant-b's page while the handler of a
\* request to another path, started in between, waits for the API
C18_Witness ==
  /\ pc = "done"
  /\ abResult # <<>>
  /\ abResult[1].variant.name = VariantBName
  /\ parked.pc = "api"
  /\ parked.url.pathname = StylePath
  /\ parked.abResult = <<>>

\* The classes classifyVisit knows
Classes == {"landing", "noise", "order_form", "learn_other", "other"}

MetaJson == <<"/", "meta", ".", "json">>

\* The class the documented table gives a visit: its rows for the three
\* domains, /reg/*, /smm/buy-*, /buy/* and /join-today/* being the order forms
DocumentedClass(visit) ==
  LET u == URL(visit.url)
  IN  IF ~Truthy(visit.url) \/ u.threw THEN "other"
      ELSE IF u.hostname = "go.urbansketchcourse.com" THEN "landing"
      ELSE IF u.hostname = "www.urbansketchcourse.com"
        THEN (IF u.pathname = MetaJson THEN "noise" ELSE "landing")
      ELSE IF u.hostname = "learn.urbansketch.com"
        THEN (IF \/ startsWith(u.pathname, <<"/", "reg", "/">>)
                 \/ startsWith(u.pathname, <<"/", "smm", "/", "buy", "-">>)
                 \/ startsWith(u.pathname, <<"/", "buy", "/">>)
                 \/ startsWith(u.pathname, <<"/", "join", "-", "today", "/">>)
              THEN "order_form" ELSE "learn_other")
      ELSE "other"

OrderFormPath(path) ==
  \/ \E prefix \in {<<"/", "reg">>, <<"/", "smm", "/", "buy">>,
                    <<"/", "buy">>, <<"/", "join", "-", "today">>} :
       startsWith(path, prefix)
  \/ includes(path, <<"/", "order", "-", "form">>)
  \/ startsWith(path, <<"/", "plus">>) /\ includes(path, <<"coaching">>)

ZeroAmount(r) == ~AmountOf(r).nan /\ AmountOf(r).hundredths = 0
PositiveAmount(r) == ~AmountOf(r).nan /\ AmountOf(r).hundredths > 0

\* C22: the report of a period with referrals is labelled FREE when all of
\* them have amount = 0, PAID when all of them have amount > 0, and MIXED
\* when referrals of both kinds are present.
C22_LabelByAmounts ==
  (script.pc = "reported" /\ script.referrals # <<>>) =>
    LET rs == script.referrals
        n == 1..Len(rs)
    IN  /\ (\A i \in n : ZeroAmount(rs[i])) =>
             script.funnelLabel = "FREE (lead gen)"
        /\ (\A i \in n : PositiveAmount(rs[i])) =>
             script.funnelLabel = "PAID (revenue)"
        /\ ((\E i \in n : ZeroAmount(rs[i]))
              /\ (\E i \in n : PositiveAmount(rs[i]))) =>
             script.funnelLabel = "MIXED (free + paid)"

\* The request in flight has an assignment, and a freshly drawn one
Assigned == abResult # <<>>
FreshlyAssigned == abResult # <<>> /\ abResult[1].isNew

\* C23: the handler returns the response object of the content fetch itself,
\* with no attribution call made, exactly when none of these holds: a
\* non-empty referral id with HTML content, a fresh assignment, an assignment
\* with HTML content; in every other case it returns a copy.
C23_FastPath ==
  pc = "done" =>
    LET html == isHtml(fetched[1])
        nothingToDo == /\ ~(Truthy(affiliateId) /\ html)
                       /\ ~FreshlyAssigned
                       /\ ~(Assigned /\ html)
    IN  /\ returned \in {"same", "copy"}
        /\ returned = "same" <=> nothingToDo
        /\ returned = "same" => (response = fetched /\ apiCalls = <<>>)

\* C23's case: a visitor holding the assignment cookie asks with ?ref=5 for
\* the experiment's path without its slash, the store has no such file, and
\* the 404 is returned as it was fetched
C23_Witness ==
  /\ pc = "done"
  /\ returned = "same"
  /\ Assigned
  /\ Truthy(affiliateId)
  /\ fetched[1].status = 404

\* The POST of the request in flight was sent and is not yet answered
ApiCallPending == apiCalls # <<>> /\ apiResponse \in {"none", "never"}

\* C24: within one request the assignment is decided from the request's own
\* path before the content fetch is issued, the content fetch is answered
\* before an attribution call is sent, and the attribution call is answered or
\* has failed before the response is returned; the content fetch and the
\* attribution call are never outstanding together.
C24_Sequential ==
  /\ pc = "assets" =>
       /\ \E rand \in Draws :
            abResult = resolveABTest(url.pathname, cookies, rand)
       /\ assetPath = IF Assigned THEN abResult[1].variant.path
                      ELSE url.pathname
       /\ fetched = <<>>
       /\ apiCalls = <<>>
       /\ response = <<>>
  /\ apiCalls # <<>> => (fetched # <<>> /\ pc \in {"api", "done"})
  /\ ApiCallPending => (pc = "api" /\ response = <<>>)
  /\ (pc = "done" /\ apiCalls # <<>>) => apiResponse \in Outcomes

\* C24's case: variant-b's page was fetched for the request's path and the
\* POST is outstanding
C24_Witness ==
  /\ pc = "api"
  /\ ApiCallPending
  /\ Assigned
  /\ abResult[1].variant.name = VariantBName
  /\ fetched[1].page # url.pathname

\* What every attribution call presupposes, whatever the credit policy
CallPresupposes ==
  /\ Len(apiCalls) = 1
  /\ Truthy(affiliateId)
  /\ isHtml(fetched[1])
  /\ ~ConfigMissing

\* C25 (as stated): a request makes at most one attribution call, and makes
\* one only if it carries a referral id, its content is classified as HTML,
\* the base URL, public key and token are configured, and creditLast is set
\* or one of affwp_affiliate_id and affwp_visit_id is missing from its
\* cookies.
C25_OnlyIfMissing ==
  /\ Len(apiCalls) <= 1
  /\ apiCalls # <<>> =>
       /\ CallPresupposes
       /\ \/ creditLast
          \/ Get(cookies, AFFILIATE_COOKIE) = NULL
          \/ Get(cookies, VISIT_COOKIE) = NULL

\* C25 (amended): a request makes at most one attribution call, and makes
\* one only if it carries a referral id, its content is classified as HTML,
\* the base URL, public key and token are configured, and creditLast is set
\* or one of affwp_affiliate_id and affwp_visit_id is missing from its
\* cookies or empty.
C25_AtMostOneCall ==
  /\ Len(apiCalls) <= 1
  /\ apiCalls # <<>> =>
       /\ CallPresupposes
       /\ \/ creditLast
          \/ ~Truthy(Get(cookies, AFFILIATE_COOKIE))
          \/ ~Truthy(Get(cookies, VISIT_COOKIE))

\* C25's case: the one POST of a request failed and the response was
\* returned without another
C25_Witness ==
  /\ AttributionFailed
  /\ ~creditLast
  /\ Get(cookies, VISIT_COOKIE) = NULL
  /\ Len(apiCalls) = 1

\* The sum of the weights of the first i variants
PartialSum(variants, i) == SumOfWeights(SubSeq(variants, 1, i))

\* The loop of the weighted draw ends without a selection
FallbackTaken(variants, rand) ==
  \A i \in 1..Len(variants) : ~(rand < PartialSum(variants, i))

\* C26: for an experiment with a positive weight sum the loop of the weighted
\* draw selects a variant for every draw value, so the fallback is not
\* reached; and whenever the fallback is taken, it yields the last configured
\* variant and the handler does not throw.
C26_FallbackUnreachable ==
  HasTest =>
    LET variants == AB_TESTS[TestOfRequest]
    IN  /\ SumOfWeights(variants) > 0 =>
             \A rand \in Draws : ~FallbackTaken(variants, rand)
        /\ \A rand \in Draws :
             FallbackTaken(variants, rand) =>
               /\ variants # <<>>
               /\ Draw(variants, rand) = variants[Len(variants)]
        /\ pc # "threw"

\* Tracking is triggered for the answered request: a referral id, HTML
\* content, and a credit policy that allows it
TrackingTriggered ==
  /\ pc = "done"
  /\ Truthy(affiliateId)
  /\ isHtml(fetched[1])
  /\ \/ creditLast
     \/ ~Truthy(Get(cookies, AFFILIATE_COOKIE))
     \/ ~Truthy(Get(cookies, VISIT_COOKIE))

\* The attribution call of the answered request returned a visit id
VisitIdReturned == apiCalls # <<>> /\ apiResponse \in Registered

\* C27: when tracking is triggered the response sets affwp_affiliate_id to
\* the referral id, sets affwp_campaign if and only if the campaign is
\* non-empty, and sets affwp_visit_id, to the id returned, if and only if the
\* attribution call returned one; when it is not triggered the response sets
\* none of the three.
C27_AttributionCookies ==
  pc = "done" =>
    IF TrackingTriggered
    THEN /\ Len(Written(AFFILIATE_COOKIE)) = 1
         /\ WrittenValue(Written(AFFILIATE_COOKIE)[1][2]) = affiliateId
         /\ Len(Written(CAMPAIGN_COOKIE)) = IF Truthy(campaign) THEN 1 ELSE 0
         /\ Len(Written(VISIT_COOKIE)) = IF VisitIdReturned THEN 1 ELSE 0
         /\ VisitIdReturned =>
              /\ WrittenValue(Written(VISIT_COOKIE)[1][2]) = visitId
              /\ visitId = VisitId(Len(visits))
    ELSE /\ Written(AFFILIATE_COOKIE) = <<>>
         /\ Written(CAMPAIGN_COOKIE) = <<>>
         /\ Written(VISIT_COOKIE) = <<>>

\* C27's case: ?ref=7&campaign=50%25 on an HTML page, the API answered with
\* an id, and the response sets all three cookies
C27_Witness ==
  /\ TrackingTriggered
  /\ Truthy(campaign)
  /\ apiResponse = "id"
  /\ Len(Written(VISIT_COOKIE)) = 1
  /\ Len(Written(CAMPAIGN_COOKIE)) = 1

\* The visitor's jar once the browser has stored the response's cookies
JarAfter == StoreAll(jar, SetCookies(response[1]))

\* C28: under credit-first, a request with a referral id for HTML content
\* that lacks affwp_affiliate_id or affwp_visit_id is tracked, and its
\* response overwrites affwp_affiliate_id with the referral id; once the
\* visitor's jar holds both cookies, no response changes either of them.
C28_FirstTouch ==
  (pc = "done" /\ ~creditLast) =>
    /\ (/\ Truthy(affiliateId)
        /\ isHtml(fetched[1])
        /\ \/ Get(cookies, AFFILIATE_COOKIE) = NULL
           \/ Get(cookies, VISIT_COOKIE) = NULL) =>
         /\ Len(Written(AFFILIATE_COOKIE)) = 1
         /\ JarAfter[AFFILIATE_COOKIE] = affiliateId
         /\ Configured => Len(apiCalls) = 1
    /\ (jar[AFFILIATE_COOKIE] # NULL /\ jar[VISIT_COOKIE] # NULL) =>
         /\ JarAfter[AFFILIATE_COOKIE] = jar[AFFILIATE_COOKIE]
         /\ JarAfter[VISIT_COOKIE] = jar[VISIT_COOKIE]
         /\ apiCalls = <<>>

\* C28's case: a visitor credited to affiliate 5 with a visit id follows a
\* link with ?ref=7 to an HTML page
C28_Witness ==
  /\ pc = "done"
  /\ ~creditLast
  /\ jar[AFFILIATE_COOKIE] = <<"5">>
  /\ jar[VISIT_COOKIE] # NULL
  /\ affiliateId = <<"7">>
  /\ isHtml(fetched[1])

\* The place of a cookie name in the order the handler writes them
Rank(name) ==
  CASE SubSeq(name, 1, Len(AB_COOKIE_PREFIX)) = AB_COOKIE_PREFIX -> 1
    [] name = AFFILIATE_COOKIE -> 2
    [] name = CAMPAIGN_COOKIE -> 3
    [] name = VISIT_COOKIE -> 4
    [] OTHER -> 0

\* Each cookie of the response is one the handler writes, is written once,
\* and stands after those that come before it in the handler's order
WrittenOnceInOrder ==
  LET written == SetCookies(response[1])
  IN  \A i \in 1..Len(written) :
        /\ Rank(WrittenName(written[i][2])) > 0
        /\ \A j \in 1..(i - 1) :
             Rank(WrittenName(written[j][2])) < Rank(WrittenName(written[i][2]))

\* The returned body holds the variant tag of the assignment
TagInjected ==
  /\ Assigned
  /\ includes(response[1].body,
              ClarityTag(abResult[1].testKey, abResult[1].variant.name))

\* The response carries the ab_ cookie, the affiliate cookie and the tag
CarriesAll ==
  /\ Len(WrittenWithPrefix(AB_COOKIE_PREFIX)) = 1
  /\ Len(Written(AFFILIATE_COOKIE)) = 1
  /\ TagInjected

\* C29 (as stated): on a response the worker modifies, each of ab_<key>,
\* affwp_affiliate_id, affwp_campaign and affwp_visit_id is appended at most
\* once and in that order; and when a fresh assignment and a referral id
\* coincide on content classified as HTML, the one response carries the ab_
\* cookie, the attribution cookies and the variant tag.
C29_ComposedTogether ==
  (pc = "done" /\ returned = "copy") =>
    /\ WrittenOnceInOrder
    /\ (FreshlyAssigned /\ Truthy(affiliateId) /\ isHtml(fetched[1])) =>
         CarriesAll

\* C29 (amended): on a response the worker modifies, each of ab_<key>,
\* affwp_affiliate_id, affwp_campaign and affwp_visit_id is appended at most
\* once and in that order; and when a fresh assignment and a referral id
\* coincide on content classified as HTML, the credit policy allows tracking
\* and the document has a head element, the one response carries the ab_
\* cookie, the attribution cookies and the variant tag.
C29_ComposedWhenTracked ==
  (pc = "done" /\ returned = "copy") =>
    /\ WrittenOnceInOrder
    /\ (FreshlyAssigned /\ TrackingTriggered /\ HeadEnds # {}) =>
         /\ CarriesAll
         /\ Len(Written(CAMPAIGN_COOKIE)) = IF Truthy(campaign) THEN 1 ELSE 0
         /\ Len(Written(VISIT_COOKIE)) = IF VisitIdReturned THEN 1 ELSE 0

\* C29's case: a new visitor follows ?ref=7&campaign=50%25 to the
\* experiment's page and gets four cookies and the tag in one response
C29_Witness ==
  /\ pc = "done"
  /\ FreshlyAssigned
  /\ TrackingTriggered
  /\ Len(SetCookies(response[1])) = 4
  /\ TagInjected

\* C30 (as stated): the returned body holds the variant tag if and only if
\* an assignment exists and the content is classified as HTML; without an
\* assignment, and for content not classified as HTML, the body is the
\* fetched one.
C30_TagIffHtml ==
  pc = "done" =>
    /\ TagInjected <=> (Assigned /\ isHtml(fetched[1]))
    /\ (~Assigned \/ ~isHtml(fetched[1])) =>
         response[1].body = fetched[1].body

\* C30 (amended): the returned body holds the variant tag if and only if an
\* assignment exists, the content is classified as HTML and the document has
\* a head element; without an assignment, and for content not classified as
\* HTML, the body is the fetched one.
C30_TagIffHtmlWithHead ==
  pc = "done" =>
    /\ TagInjected <=> (Assigned /\ isHtml(fetched[1]) /\ HeadEnds # {})
    /\ (~Assigned \/ ~isHtml(fetched[1])) =>
         response[1].body = fetched[1].body

\* C30's case: under an assignment a document with a head element, served
\* without a content type for a path that does not end in '/', is returned
\* untouched
C30_Witness ==
  /\ pc = "done"
  /\ Assigned
  /\ ~isHtml(fetched[1])
  /\ HeadEnds # {}
  /\ response[1].body = fetched[1].body


-----------------------------------------------------------------------------
(* HTML classification                                                     *)

\* The content type of the fetched response contains text/html
ContentSignal ==
  \E i \in 1..Len(fetched[1].headers) :
    /\ fetched[1].headers[i][1] = "content-type"
    /\ \E j \in 1..(Len(fetched[1].headers[i][2]) - 2) :
         SubSeq(fetched[1].headers[i][2], j, j + 2) = <<"text", "/", "html">>

\* The request path ends in '/', ends in '.html' or is empty
PathSignal ==
  LET p == url.pathname
  IN  \/ p = <<>>
      \/ p # <<>> /\ p[Len(p)] = "/"
      \/ Len(p) >= 2 /\ p[Len(p) - 1] = "." /\ p[Len(p)] = "html"

\* The handler treated the request in flight as one for an HTML page with a
\* referral id: it called the API or wrote the affiliate cookie
TreatedAsHtml ==
  \/ apiCalls # <<>>
  \/ pc = "done" /\ Written(AFFILIATE_COOKIE) # <<>>

\* C31: a request is classified as HTML if and only if the content type of
\* the fetched response contains text/html, or the request path ends in '/',
\* ends in '.html' or is empty; either signal alone suffices. The
\* classification is read off what the handler does with a referral id under
\* the default policy on a path without experiment.
C31_HtmlClassification ==
  (/\ pc \in {"api", "done"}
   /\ Truthy(affiliateId)
   /\ ~Assigned
   /\ env.AFFWP_CREDIT_LAST = NULL) =>
    (TreatedAsHtml <=> (ContentSignal \/ PathSignal))

\* C31's case: a page requested by its file name and served without a
\* content type is tracked
C31_Witness ==
  /\ pc = "done"
  /\ url.pathname = IndexPath
  /\ ~ContentSignal
  /\ Truthy(affiliateId)
  /\ env.AFFWP_CREDIT_LAST = NULL
  /\ Written(AFFILIATE_COOKIE) # <<>>

-----------------------------------------------------------------------------
(* Visit id extraction                                                     *)

\* The JSON object of the answer to the request in flight
AnswerData == Data(apiResponse, Len(visits))

\* The handler's visit id is `v`, and the visit cookie carries it
Extracted(v) ==
  /\ visitId = v
  /\ Len(Written(VISIT_COOKIE)) = 1
  /\ WrittenValue(Written(VISIT_COOKIE)[1][2]) = v

\* No visit id is returned and no visit cookie written
NothingExtracted == visitId = NULL /\ Written(VISIT_COOKIE) = <<>>

\* A field that is there and is neither 0 nor ''
Usable(v) == v # NULL /\ v # <<>> /\ v # ZERO

\* C32 as stated: on a success answer with a JSON object the visit id is the
\* value of visit_id whenever that field is present, the value of id only
\* when visit_id is absent, and none when neither is present.
C32_FirstPresentField ==
  (pc = "done" /\ apiResponse \in Parsed) =>
    /\ AnswerData.visit_id # NULL => Extracted(AnswerData.visit_id)
    /\ (AnswerData.visit_id = NULL /\ AnswerData.id # NULL) =>
         Extracted(AnswerData.id)
    /\ (AnswerData.visit_id = NULL /\ AnswerData.id = NULL) => NothingExtracted

\* C32, amended: on a success answer with a JSON object the visit id is the
\* value of visit_id when that field is present and neither 0 nor empty,
\* else the value of id when that is present and neither 0 nor empty, and
\* none otherwise.
C32_FirstTruthyField ==
  (pc = "done" /\ apiResponse \in Parsed) =>
    /\ Usable(AnswerData.visit_id) => Extracted(AnswerData.visit_id)
    /\ (~Usable(AnswerData.visit_id) /\ Usable(AnswerData.id)) =>
         Extracted(AnswerData.id)
    /\ (~Usable(AnswerData.visit_id) /\ ~Usable(AnswerData.id)) =>
         NothingExtracted

\* C32's case: the answer carries the number 0 as visit_id beside an id, and
\* the id is what the handler returns
C32_Witness ==
  /\ pc = "done"
  /\ apiResponse = "zero"
  /\ AnswerData.visit_id = ZERO
  /\ visitId = AnswerData.id

-----------------------------------------------------------------------------
(* parseCookies as a total function                                        *)

\* C33 as stated: parseCookies returns a mapping without throwing for every
\* Cookie header, values with malformed percent-encoding included. Checked
\* on the header of every request the handler has taken up.
C33_ParseTotal ==
  pc # "idle" => ~parseCookies(cookieHeader).threw

-----------------------------------------------------------------------------
(* Cookie lifetimes                                                        *)

\* The attributes a cookie is written with: what follows its value
AttributesFor(seconds) ==
  <<";", " ", "Path", "=", "/", ";", " ", "Max-Age", "=", seconds,
    ";", " ", "SameSite", "=", "Lax">>

\* The header ends in these attributes
WrittenFor(header, seconds) ==
  /\ Len(header) > 15
  /\ SubSeq(header, Len(header) - 14, Len(header)) = AttributesFor(seconds)

\* The Set-Cookie headers of the response for the affwp_* cookies
WrittenAffwp ==
  SelectSeq(SetCookies(response[1]),
            LAMBDA h : WrittenName(h[2]) \in
                         {AFFILIATE_COOKIE, VISIT_COOKIE, CAMPAIGN_COOKIE})

\* The configured lifetime is a number of days, or left to its default
DaysConfigured ==
  env.AFFWP_COOKIE_DAYS \in {NULL, <<>>, <<"3", "0">>}

\* The seconds of the configured lifetime
LifetimeSeconds ==
  IF env.AFFWP_COOKIE_DAYS = <<"3", "0">> THEN "2592000" ELSE "34560000"

\* C34: every affwp_* cookie is written with Max-Age equal to the configured
\* days times 86400 (34,560,000 for the default 400 days), every ab_ cookie
\* with Max-Age 2,592,000; all with Path=/ and SameSite=Lax; and an ab_ cookie
\* is written only on a fresh assignment. Stated for a lifetime configured as
\* a number of days or left unset.
C34_CookieLifetimes ==
  (pc = "done" /\ DaysConfigured) =>
    /\ \A i \in 1..Len(WrittenAffwp) :
         WrittenFor(WrittenAffwp[i][2], LifetimeSeconds)
    /\ \A i \in 1..Len(WrittenWithPrefix(AB_COOKIE_PREFIX)) :
         WrittenFor(WrittenWithPrefix(AB_COOKIE_PREFIX)[i][2], "2592000")
    /\ WrittenWithPrefix(AB_COOKIE_PREFIX) # <<>> => FreshlyAssigned
    /\ Len(SetCookies(response[1])) =
         Len(WrittenAffwp)
           + Len(WrittenWithPrefix(AB_COOKIE_PREFIX))

\* C34's case: a fresh assignment and a tracked referral under a lifetime of
\* 30 days, all three affwp_* cookies and the ab_ cookie written
C34_Witness ==
  /\ pc = "done"
  /\ env.AFFWP_COOKIE_DAYS = <<"3", "0">>
  /\ FreshlyAssigned
  /\ Len(WrittenAffwp) = 3
  /\ Len(WrittenWithPrefix(AB_COOKIE_PREFIX)) = 1

-----------------------------------------------------------------------------
(* The landing URL                                                         *)

\* C35: the landing URL sent to the attribution service is the origin of the
\* request plus its original path, without a query string; it is the same
\* whichever variant's content path was fetched.
C35_LandingUrl ==
  \A i \in 1..Len(apiCalls) :
    /\ apiCalls[i].url =
         <<"https:", "/", "/", "go.urbansketchcourse.com">> \o url.pathname
    /\ \A j \in 1..Len(apiCalls[i].url) : apiCalls[i].url[j] # "?"

\* C35's case: a referred visitor assigned to the variant whose content path
\* differs from the request path, the call sent
C35_Witness ==
  /\ pc = "api"
  /\ Assigned
  /\ assetPath # url.pathname
  /\ apiCalls # <<>>
  /\ Truthy(Get(url.searchParams, <<"ref">>))

-----------------------------------------------------------------------------
(* Attribution without configuration                                       *)

\* The policy allows tracking: credit-last is on, or one of the two
\* attribution cookies is missing from the request
PolicyAllows ==
  \/ env.AFFWP_CREDIT_LAST \in {NULL, <<>>, <<"true">>}
  \/ ~Truthy(Get(cookies, AFFILIATE_COOKIE))
  \/ ~Truthy(Get(cookies, VISIT_COOKIE))

\* C37: with the base URL, the public key or the token missing, an HTML
\* request with a referral id under a policy that allows tracking still gets
\* the affwp_affiliate_id cookie (and the affwp_campaign cookie if the
\* campaign is non-empty) but no affwp_visit_id cookie, as after a failed
\* attribution call; no call is made.
C37_CookiesWithoutConfig ==
  (/\ pc = "done"
   /\ ConfigMissing
   /\ Truthy(affiliateId)
   /\ ContentSignal \/ PathSignal
   /\ PolicyAllows) =>
    /\ apiCalls = <<>>
    /\ FailureCookies
    /\ Len(Written(CAMPAIGN_COOKIE)) = (IF campaign = <<>> THEN 0 ELSE 1)
    /\ Len(WrittenAffwp) = Len(Written(CAMPAIGN_COOKIE)) + 1

\* C37's case: a page requested with referral id and campaign from a worker
\* without its token
C37_Witness ==
  /\ pc = "done"
  /\ env.AFFWP_TOKEN = NULL
  /\ Truthy(affiliateId)
  /\ campaign # <<>>
  /\ ContentSignal
  /\ Len(Written(AFFILIATE_COOKIE)) = 1
  /\ Len(Written(CAMPAIGN_COOKIE)) = 1

-----------------------------------------------------------------------------
(* The referral parameter and the credit-last switch                       *)

\* The name of the referral parameter: AFFWP_REF_VAR, ref by default
RefName ==
  IF env.AFFWP_REF_VAR \in {NULL, <<>>} THEN <<"ref">> ELSE env.AFFWP_REF_VAR

\* The value of the referral parameter in the request in flight
RefParam == Get(url.searchParams, RefName)

\* C40: a referral parameter that is present but empty is treated as absent:
\* no attribution call is made and no affwp_* cookie is set; the parameter's
\* name is taken from AFFWP_REF_VAR and is ref by default; and credit-last is
\* on only when AFFWP_CREDIT_LAST is unset, empty or the literal string true
\* (seen on an HTML request with a referral id from a visitor holding both
\* attribution cookies, which is tracked exactly when credit-last is on).
C40_ReferralParameter ==
  /\ (pc \in {"api", "done"} /\ RefParam \in {NULL, <<>>}) =>
       /\ apiCalls = <<>>
       /\ pc = "done"
       /\ WrittenAffwp = <<>>
  /\ (/\ pc = "done"
      /\ RefParam \notin {NULL, <<>>}
      /\ ContentSignal \/ PathSignal
      /\ ~Truthy(Get(cookies, AFFILIATE_COOKIE))) =>
       /\ Len(Written(AFFILIATE_COOKIE)) = 1
       /\ WrittenValue(Written(AFFILIATE_COOKIE)[1][2]) = RefParam
  /\ (/\ pc \in {"api", "done"}
      /\ RefParam \notin {NULL, <<>>}
      /\ ContentSignal \/ PathSignal
      /\ Truthy(Get(cookies, AFFILIATE_COOKIE))
      /\ Truthy(Get(cookies, VISIT_COOKIE))) =>
       (TreatedAsHtml <=>
          env.AFFWP_CREDIT_LAST \in {NULL, <<>>, <<"true">>})

\* C40's case: the referral parameter is named a, the request carries ?a=
\* beside a non-empty ref, and the page is returned without any cookie
C40_Witness ==
  /\ pc = "done"
  /\ env.AFFWP_REF_VAR = <<"a">>
  /\ Get(url.searchParams, <<"a">>) = <<>>
  /\ Truthy(Get(url.searchParams, <<"ref">>))
  /\ ContentSignal
  /\ SetCookies(response[1]) = <<>>

-----------------------------------------------------------------------------
(* Constraint identification                                               *)

\* The conditions of the five diagnoses, in their order
Applies(m) ==
  <<m.lpCount = 0,
    m.ofCount * 100 < 3 * m.lpCount,
    m.ofCount = 0 \/ m.conversionCount * 100 < 60 * m.ofCount,
    /\ m.adSpend > 0 /\ m.paidCount > 0
    /\ m.adSpend * m.paidCount > m.totalRevenue * m.conversionCount,
    m.adSpend > 0 /\ m.paidCount = 0 /\ m.freeCount > 0,
    TRUE>>

DiagnosisNames ==
  <<"DATA", "CAMPAIGN: landing page", "CAMPAIGN: order form", "ECONOMIC",
    "FREE FUNNEL", "NO CONSTRAINT">>

-----------------------------------------------------------------------------
(* The two workers without experiment                                      *)

\* C38 as stated: with no experiment configured, the A/B-enabled worker and
\* the tracking-only worker are equivalent: on the same request, environment
\* and attribution outcome they make the same attribution call (or none) and
\* return the same fetched response with the same Set-Cookie headers; where
\* one throws, so does the other.
C38_WorkersEquivalent ==
  AB_TESTS = NoTests =>
    /\ pc = "threw" =>
         \A kind \in AssetKinds : TrackerThrows(AssetResponse(kind, url.pathname))
    /\ pc \in {"api", "done"} =>
         /\ ~TrackerThrows(fetched[1])
         /\ TrackerCalls(fetched[1]) = apiCalls
    /\ pc = "done" =>
         TrackerResponse(fetched[1], VisitIdOf(apiResponse, Len(visits)))
           = response[1]

\* What remains of the equivalence: it holds for a worker with its full
\* configuration and a request whose Cookie header parseCookies accepts
C38_EquivalentOtherwise ==
  (/\ AB_TESTS = NoTests
   /\ ~ConfigMissing
   /\ pc \in {"api", "done"}) =>
    /\ TrackerCalls(fetched[1]) = apiCalls
    /\ pc = "done" =>
         TrackerResponse(fetched[1], VisitIdOf(apiResponse, Len(visits)))
           = response[1]

-----------------------------------------------------------------------------
(* The paginated fetches                                                   *)

\* The records 1..k, as the list holds them
Prefix(k) == IF k = 0 THEN <<>> ELSE <<<<1, k>>>>

\* The list is the whole prefix of the API's sequence that precedes the first
\* record older than the start date
WholePrefix == script.all = Prefix(script.inWindow)

\* C39 as stated: a paginated fetch returns exactly the prefix of the API's
\* date-descending sequence that precedes the first record older than the
\* start date (every returned record is in the window and no record of the
\* window before that point is dropped), and fetchAllReferrals stops only at
\* an empty batch, a record older than the start date or a batch shorter
\* than 200.
C39_ExactPrefix ==
  script.pc = "returned" =>
    /\ WholePrefix
    /\ script.endpoint = "/referrals" => script.stop \in {"empty", "old", "short"}

\* C39, amended: the same, except that fetchAllVisits in the copy with the
\* batch limit returns after 150 batches, and then with the first 75,000
\* records of that prefix.
C39_PrefixUpToLimit ==
  script.pc = "returned" =>
    /\ script.stop # "limit" => WholePrefix
    /\ script.stop = "limit" =>
         /\ script.endpoint = "/visits" /\ script.hasMaxBatches
         /\ script.batchNum = 150
         /\ script.all = Prefix(75000)
         /\ script.inWindow >= 75000
    /\ script.endpoint = "/referrals" => script.stop \in {"empty", "old", "short"}

\* C39's case: 75,001 visits in the window, and the copy with the batch limit
\* returns the first 75,000 of them
C39_Witness ==
  /\ script.pc = "returned"
  /\ script.hasMaxBatches
  /\ script.inWindow = 75001
  /\ script.stop = "limit"
  /\ script.all = <<<<1, 75000>>>>

====
